---- MODULE Spec2Model ----
(***************************************************************************)
(* Model of the companion sync client (src/companion/sync.py): the         *)
(* RateLimiter, the TokenManager, the SyncClient request pipeline and the  *)
(* upload batch processing over the LocalCache sync queue; and of the      *)
(* SavedVariables watcher and its Lua table parser                         *)
(* (src/companion/watcher.py).                                             *)
(*                                                                         *)
(* Coroutines are modelled as tasks with a program counter; one action is  *)
(* one run of a coroutine from one suspension point (await) to the next.   *)
(* Time is an integer count of clock units, Sec units to the second.       *)
(***************************************************************************)
EXTENDS Integers, Sequences, FiniteSets, TLC

\* ------------------------------------------------------------------ bounds
NumTasks == 2
MaxCalls == 4
MaxTokenCalls == 3
MaxTicks == 2
rpm_limit == 2
rph_limit == 3
NumItems == 3
MaxAttempt == 8
MaxRestarts == 1
\* iterations of the background loop
MaxIterations == 3
\* SyncConfig.upload_interval, download_interval and full_sync_interval, in
\* seconds
upload_interval == 1
download_interval == 2
full_sync_interval == 2
\* SyncConfig.max_batch_size
max_batch_size == 2
\* MAX_CACHED_RUNS of the watcher (10000 in the source), scaled down
MAX_CACHED_RUNS == 2
\* the writes of the SavedVariables file and the file-modified events raised
MaxWrites == 2
MaxNotifications == 3
\* the reads of the file that the file system fails in a row
MaxFailures == 3
\* the loop tasks that the start_background_sync() calls create
MaxLoopTasks == 3
\* the length of the numeric literals parsed
MaxLiteral == 4
\* the entries of the tables parsed
MaxEntries == 3
\* the most top-level assignments in a parsed file
MaxAssignments == 3

\* ------------------------------------------------------- program constants
\* clock units per second: the jitter of _calculate_backoff is delay * 0.25 * j / 100
Sec == 400
MINUTE == 60
HOUR == 3600
\* SyncConfig.token_refresh_buffer, in seconds
token_refresh_buffer == 300
\* SyncConfig.max_retries
max_retries == 3
\* SyncConfig.base_retry_delay and max_retry_delay, in seconds
base_retry_delay == 1
max_retry_delay == 60
\* the Retry-After assumed for a 429 answer without the header, in seconds
DefaultRetryAfter == 60

Tasks == 1..NumTasks
Ids == 1..NumItems
None == [none |-> TRUE]
NoTask == 0
\* the loop tasks that start_background_sync() can create, in order of creation
LoopTasks == 1..MaxLoopTasks

\* free advances of the clock, in clock units
TimeSteps == {1, MINUTE * Sec, HOUR * Sec}

\* cache keys: f"recommendations:{run_id or 'all'}:..." and "feature_updates:..."
CacheKeys == {"recommendations:all:all", "feature_updates"}

VARIABLES
    now,            \* time.time(), in clock units
    ticks,          \* free clock advances taken so far
    calls,          \* top-level operations started so far
    pc,             \* per task: the suspension point it is at
    op,             \* per task: the top-level operation it runs
    wake,           \* per task: the time its asyncio.sleep ends
    minute_window,  \* RateLimiter.minute_window
    hour_window,    \* RateLimiter.hour_window
    minute_ago,     \* per task: local minute_ago of acquire()
    hour_ago,       \* per task: local hour_ago of acquire()
    rl_lock,        \* RateLimiter._lock: the task holding it, or NoTask
    grants,         \* history: the times at which acquire() granted
    result,         \* per task: what its operation returned or raised
    token,          \* TokenManager._token
    stored,         \* the auth_tokens row of the LocalCache
    refresh_lock,   \* TokenManager._refresh_lock: the task holding it, or NoTask
    tok,            \* per task: local token of get_valid_token() / _request()
    issued,         \* access tokens the server has issued so far
    inflight,       \* history: tasks whose POST /auth/refresh is in flight
    sent,           \* history, per task: refresh requests sent by its operation
    covered,        \* history, per task: the refresh answered while it waited or refreshed
    rejected,       \* history: a refresh was rejected with 401 and no login followed
    late,           \* history, per task: its get_valid_token() ended while rejected
    gvt_out,        \* history, per task: what its get_valid_token() returned or raised
    attempt,        \* per task: loop variable attempt of _request()
    headers,        \* per task: access token in the Authorization header
    last_exception, \* per task: last_exception of _request()
    http_calls,     \* history, per task: client.request() calls of its _request()
    call_at,        \* history, per task: time of its latest client.request()
    n401,           \* history, per task: 401 responses its _request() received
    last429,        \* history, per task: its latest 429 that carried Retry-After
    got4xx,         \* history, per task: http_calls when a 4xx answer arrived
    queue,          \* the sync_queue table of the LocalCache: id -> row
    next_id,        \* ids handed out so far (uuid4 of upload_run)
    up_items,       \* per task: items of _process_upload_batch()
    up_groups,      \* per task: item types of by_type still to send
    up_results,     \* per task: results["processed"] and results["failed"]
    reported,       \* history: what the server last reported for each item
    transitions,    \* history: the status changes made, as <<from, to>>
    up_raised,      \* history, per task: what the _request() calls of the
                    \* current batch raised, as <<item type, exception>>
    enq_last,       \* history: the item of the last enqueue() of each id, and
                    \* whether that enqueue found a row of the id
    restarts,       \* how often the agent was killed and started again
    cache,          \* the cached_data table of the LocalCache: key -> row
    cache_last,     \* history: the last cache_data() call of each key
    metadata,       \* the sync_metadata value of last_recommendation_sync, or None
    cached,         \* per task: local cached of download_recommendations()
    running,        \* SyncClient._running
    sync_task,      \* SyncClient._sync_task: a loop task, or NoTask
    loop_tasks,     \* per loop task created by start_background_sync(): its state
    awaited,        \* per task: the loop task its stop_background_sync() or
                    \* close() awaits, or NoTask
    loop_pc,        \* where _background_sync_loop() of the sync task is
    loop_wake,      \* the time its asyncio.sleep ends
    loop_now,       \* local now of the loop
    last_upload,    \* local last_upload of the loop
    last_download,  \* local last_download of the loop
    last_full_sync, \* local last_full_sync of the loop
    loop_iter,      \* history: iterations the loop has begun
    loop_errors,    \* history: cycle failures `except Exception` has caught
    err_iter,       \* history: the iteration of the latest such failure
    file,           \* the addon's SavedVariables file: its content, or None
    writes,         \* history: how often the file was written
    pending,        \* file-modified events the observer has yet to dispatch
    notified,       \* history: file-modified events raised so far
    w_running,      \* SavedVariablesWatcher._running
    w_pc,           \* per thread: where in _handle_file_change() it is
    w_lock,         \* SavedVariablesWatcher._lock: the thread that holds it
    w_content,      \* per thread: local content of _handle_file_change()
    last_file_hash, \* SavedVariablesWatcher._last_file_hash
    last_combat_runs, \* SavedVariablesWatcher._last_combat_runs
    last_build_hash, \* SavedVariablesWatcher._last_build_hash
    handled,        \* history: what the latest _handle_file_change() step did
    run_reports,    \* history, per run id: on_combat_run calls (2: two or more)
    build_event_hash, \* history: the build hash at the last on_build_change
    fn_in,          \* the arguments of the function call under study
    fn_out          \* what that call returned

clockVars == <<now, ticks>>
taskVars == <<calls, pc, op, wake, result>>
rlVars == <<minute_window, hour_window, minute_ago, hour_ago, rl_lock, grants>>
tmVars == <<token, stored, refresh_lock, tok, issued, inflight, sent, covered, rejected, late,
           gvt_out>>
reqVars == <<attempt, headers, last_exception, http_calls, call_at, n401, last429, got4xx>>
upVars == <<queue, next_id, up_items, up_groups, up_results, reported, transitions,
           up_raised>>
fnVars == <<fn_in, fn_out>>
cacheVars == <<cache, cache_last, metadata, cached>>
watchVars == <<file, writes, pending, notified, w_running, w_pc, w_lock, w_content,
              last_file_hash, last_combat_runs, last_build_hash, handled, run_reports,
              build_event_hash>>
storeVars == <<enq_last, restarts, cacheVars, watchVars>>
lifeVars == <<sync_task, loop_tasks, awaited>>
bgVars == <<lifeVars, running, loop_pc, loop_wake, loop_now, last_upload, last_download,
           last_full_sync, loop_iter, loop_errors, err_iter>>
otherVars == <<fnVars, storeVars, bgVars>>
vars == <<clockVars, taskVars, rlVars, tmVars, reqVars, upVars, otherVars>>

\* what the rate limiter, the token manager and the clock leave alone
notRL == <<tmVars, reqVars, upVars, otherVars>>
notTM == <<rlVars, upVars, otherVars>>
notClock == <<token, stored, refresh_lock, tok, issued, inflight, sent, rejected, late, gvt_out,
             reqVars, upVars, otherVars>>

\* ------------------------------------------------ SavedVariablesWatcher
\* the threads that call _handle_file_change(): start() on the main thread
\* and on_modified() on the observer's thread
WatchThreads == {"main", "observer"}

\* the run ids written in the file; one more than the cache holds
RunIds == 1..(MAX_CACHED_RUNS + 1)

\* SavedVariablesWatcher.__init__ next to the file f
InitWatcher(f) ==
    /\ file = f
    /\ writes = 0
    /\ pending = 0
    /\ notified = 0
    /\ w_running = FALSE
    /\ w_pc = [th \in WatchThreads |-> "idle"]
    /\ w_lock = "none"
    /\ w_content = [th \in WatchThreads |-> None]
    /\ last_file_hash = None
    /\ last_combat_runs = {}
    /\ last_build_hash = None
    /\ handled = None
    /\ run_reports = [id \in RunIds |-> 0]
    /\ build_event_hash = None

\* the process ends and a new watcher is constructed: the file stays
ResetWatcher ==
    /\ pending' = 0
    /\ w_running' = FALSE
    /\ w_pc' = [th \in WatchThreads |-> "idle"]
    /\ w_lock' = "none"
    /\ w_content' = [th \in WatchThreads |-> None]
    /\ last_file_hash' = None
    /\ last_combat_runs' = {}
    /\ last_build_hash' = None
    /\ UNCHANGED <<file, writes, notified, handled, run_reports, build_event_hash>>

\* what the watcher leaves alone
notWatch == <<clockVars, taskVars, rlVars, tmVars, reqVars, upVars, fnVars, enq_last, restarts,
             cacheVars, bgVars>>

\* a file content, by what the parser and the watcher make of it: whether
\* parse() returns or raises, whether the result holds the addon's table, the
\* run_id of each entry of combatRuns in order (0: an entry without run_id),
\* whether `builds` is a dict, its first build and currentBuild; builds are 0
\* (none or empty), 1 and 2 (well formed) and 3 (its cp_level is no number)
Content(runs, is_dict, first, current) ==
    [parses |-> TRUE, table |-> TRUE, runs |-> runs, builds_is_dict |-> is_dict,
     first_build |-> first, currentBuild |-> current]

\* the run ids 1..n in the order written
RunList(n) == [i \in 1..n |-> i]

\* the contents the game writes: combat runs accumulate; the current build
\* changes, with `builds` a dict or, as the parser returns a Lua array, a list
FileContents ==
    {Content(RunList(n), TRUE, 0, 0) : n \in 0..(MAX_CACHED_RUNS + 1)}
    \cup {Content(<<0, 1>>, TRUE, 0, 0)}
    \cup {Content(<<>>, d, 0, b) : d \in BOOLEAN, b \in 1..3}
    \cup {Content(RunList(MAX_CACHED_RUNS + 1), TRUE, 0, 1)}
    \cup {Content(<<>>, TRUE, 2, 0)}
    \cup {[Content(<<>>, TRUE, 0, 0) EXCEPT !.parses = FALSE],
          [Content(<<>>, TRUE, 0, 0) EXCEPT !.table = FALSE]}

\* hashlib.sha256(x).hexdigest(): no two values met have the same digest
sha256(x) == [sha256 |-> x]

\* the game writes the file
WriteFile ==
    /\ writes < MaxWrites
    /\ writes' = writes + 1
    /\ \E c \in FileContents \ {file} : file' = c
    /\ UNCHANGED <<pending, notified, w_running, w_pc, w_lock, w_content, last_file_hash,
                   last_combat_runs, last_build_hash, handled, run_reports, build_event_hash>>
    /\ UNCHANGED notWatch

\* the operating system reports a modification of the file to the observer,
\* once or several times for one write
Notify ==
    /\ w_running
    /\ notified < MaxNotifications
    /\ notified' = notified + 1
    /\ pending' = pending + 1
    /\ UNCHANGED <<file, writes, w_running, w_pc, w_lock, w_content, last_file_hash,
                   last_combat_runs, last_build_hash, handled, run_reports, build_event_hash>>
    /\ UNCHANGED notWatch

\* start(): the observer is started, and if the file exists the main thread
\* makes the initial _handle_file_change()
start_watching ==
    /\ ~w_running
    /\ w_running' = TRUE
    /\ w_pc' = [w_pc EXCEPT !["main"] = IF file # None THEN "wait_lock" ELSE "idle"]
    /\ UNCHANGED <<file, writes, pending, notified, w_lock, w_content, last_file_hash,
                   last_combat_runs, last_build_hash, handled, run_reports, build_event_hash>>
    /\ UNCHANGED notWatch

\* SavedVariablesEventHandler.on_modified(event) for the addon's file, on the
\* observer's thread, which dispatches one event after the other
on_modified ==
    /\ w_running
    /\ pending > 0
    /\ w_pc["observer"] = "idle"
    /\ pending' = pending - 1
    /\ w_pc' = [w_pc EXCEPT !["observer"] = "wait_lock"]
    /\ UNCHANGED <<file, writes, notified, w_running, w_lock, w_content, last_file_hash,
                   last_combat_runs, last_build_hash, handled, run_reports, build_event_hash>>
    /\ UNCHANGED notWatch

\* mutant: _handle_file_change() does not take the lock
LockIgnored == TRUE

\* with self._lock: the lock is free
LockFree == w_lock = "none"

\* what a _handle_file_change() that returns before parsing leaves behind
Returned(th, kind, c, reads) ==
    /\ w_pc' = [w_pc EXCEPT ![th] = "idle"]
    /\ handled' = [thread |-> th, kind |-> kind, content |-> c, parsed |-> FALSE,
                   file_change |-> FALSE, runs |-> <<>>, build_event |-> FALSE,
                   on_error |-> FALSE, reads |-> reads,
                   hash_before |-> last_file_hash, event_hash_before |-> build_event_hash]
    /\ UNCHANGED <<w_lock, w_content, last_file_hash>>

\* mutant: the loop goes on to a fourth attempt
ReadLoopFour(failures, n) ==
    IF failures <= 3
    THEN [kind |-> "read", reads |-> failures + 1]
    ELSE [kind |-> "unreadable", reads |-> 4]

RECURSIVE ReadLoop(_, _)
\* for attempt in range(3), n being the attempt: path.read_text() when the file system fails the
\* next `failures` reads with a PermissionError or IOError; the read that
\* succeeds ends the loop, the third that fails ends the call
ReadLoop(failures, n) ==
    IF failures <= n
    THEN [kind |-> "read", reads |-> n + 1]
    ELSE IF n < 2
    THEN ReadLoop(failures, n + 1)
    ELSE [kind |-> "unreadable", reads |-> n + 1]

\* _handle_file_change(path) up to the comparison of the hashes: the lock is
\* taken; a missing file, or one that cannot be read in three attempts, and
\* a content with the last-seen hash end the call
HandleRead(th) ==
    /\ w_pc[th] = "wait_lock"
    /\ LockFree
    /\ IF file = None
       THEN Returned(th, "missing", None, 0)
       ELSE \E failures \in 0..MaxFailures :
               LET read == ReadLoop(failures, 0)
               IN IF read.kind = "unreadable"
                  THEN Returned(th, "unreadable", None, read.reads)
                  ELSE IF sha256(file) = last_file_hash
                  THEN Returned(th, "unchanged", file, read.reads)
                  ELSE /\ w_lock' = th
                       /\ w_content' = [w_content EXCEPT ![th] = file]
                       /\ w_pc' = [w_pc EXCEPT ![th] = "process"]
                       /\ handled' = [thread |-> th, kind |-> "read", content |-> file,
                                      parsed |-> FALSE, file_change |-> FALSE,
                                      runs |-> <<>>, build_event |-> FALSE,
                                      on_error |-> FALSE, reads |-> read.reads,
                                      hash_before |-> last_file_hash,
                                      event_hash_before |-> build_event_hash]
                       /\ UNCHANGED last_file_hash
    /\ UNCHANGED <<file, writes, pending, notified, w_running, last_combat_runs,
                   last_build_hash, run_reports, build_event_hash>>
    /\ UNCHANGED notWatch

\* mutant: the cache of run ids is never trimmed
TrimmedNever(seen) == {seen}

\* the cache after the trim that follows an add: beyond MAX_CACHED_RUNS ids
\* set(list(...)[excess:]) keeps MAX_CACHED_RUNS of them, in the order of the
\* set, which is any
Trimmed(seen) ==
    IF Cardinality(seen) > MAX_CACHED_RUNS
    THEN {kept \in SUBSET seen : Cardinality(kept) = MAX_CACHED_RUNS}
    ELSE {seen}

\* _process_combat_runs(): for each entry with a run_id that is not in the
\* cache the id is added, the cache trimmed and on_combat_run called; the
\* caches it may leave and the ids reported, in order
RECURSIVE ProcessCombatRuns(_, _, _)
ProcessCombatRuns(runs, seen, called) ==
    IF runs = <<>> THEN {[seen |-> seen, reported |-> called]}
    ELSE IF Head(runs) = 0 \/ Head(runs) \in seen
    THEN ProcessCombatRuns(Tail(runs), seen, called)
    ELSE UNION {ProcessCombatRuns(Tail(runs), kept, Append(called, Head(runs))) :
                    kept \in Trimmed(seen \cup {Head(runs)})}

\* the current build _process_builds() looks at: currentBuild, or without it
\* the first of builds
current_build(c) ==
    IF c.currentBuild # 0 THEN c.currentBuild ELSE c.first_build

\* _process_builds(): nothing unless builds is a dict and there is a current
\* build whose hash is not the last one; then the hash is recorded, and
\* on_build_change is called unless _create_build_snapshot() raises
ProcessBuilds(c) ==
    LET build_hash == sha256(current_build(c))
    IN IF ~c.builds_is_dict \/ current_build(c) = 0 \/ build_hash = last_build_hash
       THEN [changed |-> FALSE, hash |-> last_build_hash, event |-> FALSE]
       ELSE [changed |-> TRUE, hash |-> build_hash, event |-> current_build(c) # 3]

\* the rest of _handle_file_change(): the hash is recorded, the content is
\* parsed, on_file_change is called and _process_data() goes through the
\* combat runs and the builds; an exception of the parser ends the call; the
\* lock is released
HandleProcess(th) ==
    /\ w_pc[th] = "process"
    /\ LET c == w_content[th]
           found == c.parses /\ c.table
           b == ProcessBuilds(c)
       IN /\ last_file_hash' = sha256(c)
          /\ \E o \in (IF found THEN ProcessCombatRuns(c.runs, last_combat_runs, <<>>)
                       ELSE {[seen |-> last_combat_runs, reported |-> <<>>]}) :
                /\ last_combat_runs' = o.seen
                /\ run_reports' =
                      [id \in RunIds |->
                          LET n == Cardinality({i \in 1..Len(o.reported) : o.reported[i] = id})
                          IN IF run_reports[id] + n > 2 THEN 2 ELSE run_reports[id] + n]
                /\ handled' = [thread |-> th, kind |-> "processed", content |-> c,
                               parsed |-> TRUE, file_change |-> c.parses,
                               runs |-> o.reported, build_event |-> found /\ b.event,
                               on_error |-> ~c.parses, reads |-> 0,
                               hash_before |-> last_file_hash,
                               event_hash_before |-> build_event_hash]
          /\ last_build_hash' = IF found THEN b.hash ELSE last_build_hash
          /\ build_event_hash' = IF found /\ b.event THEN b.hash ELSE build_event_hash
    /\ w_lock' = IF w_lock = th THEN "none" ELSE w_lock
    /\ w_pc' = [w_pc EXCEPT ![th] = "idle"]
    /\ w_content' = [w_content EXCEPT ![th] = None]
    /\ UNCHANGED <<file, writes, pending, notified, w_running>>
    /\ UNCHANGED notWatch

\* ------------------------------------------------------------- helpers
\* datetime.isoformat() of a UTC time, as far as the order of the texts goes:
\* the seconds (fixed width), then "+00:00" when the microseconds are zero
\* and "." with six digits otherwise
isoformat(at) ==
    [seconds |-> at \div Sec, fraction |-> at % Sec]

\* datetime.fromisoformat() of a text that isoformat() wrote
fromisoformat(text) ==
    text.seconds * Sec + text.fraction

RECURSIVE DropOlder(_, _)
\* while window and window[0] < limit: window.popleft()
DropOlder(window, limit) ==
    IF window # <<>> /\ Head(window) < limit
    THEN DropOlder(Tail(window), limit)
    ELSE window

Sleeping == {"acq_min_sleep", "acq_hour_sleep", "req_sleep"}

\* the advances after which some waiting task can go on: the end of a sleep, or
\* the instant past which a full window's oldest entry is cleaned
NeededSteps ==
    {wake[t] - now : t \in {u \in Tasks : pc[u] \in Sleeping /\ wake[u] > now}}
    \cup {Head(minute_window) + MINUTE * Sec + 1 - now :
            t \in {u \in Tasks : /\ pc[u] \in {"acq_min_check", "acq_min_after"}
                                  /\ Len(minute_window) >= rpm_limit
                                  /\ Head(minute_window) + MINUTE * Sec >= now}}
    \cup {Head(hour_window) + HOUR * Sec + 1 - now :
            t \in {u \in Tasks : /\ pc[u] \in {"acq_hour_check", "acq_hour_after"}
                                  /\ Len(hour_window) >= rph_limit
                                  /\ Head(hour_window) + HOUR * Sec >= now}}
    \cup {loop_wake - now : t \in {u \in Tasks : /\ loop_pc \in {"sleep", "backoff"}
                                                /\ loop_wake > now}}

\* AuthToken.needs_refresh(buffer_seconds) at time `at`
needs_refresh(tk, at) ==
    at >= tk.expires_at - token_refresh_buffer * Sec

\* a waiting caller stays covered by an answered refresh while that token's
\* expiry lies beyond the buffer
StillCovered(at) ==
    [t \in Tasks |->
        IF covered[t] # None /\ needs_refresh(covered[t].token, at) THEN None ELSE covered[t]]

\* ------------------------------------------------------------- the clock
\* the clock advances by a step some task waits for
TickNeeded ==
    /\ \E d \in NeededSteps : now' = now + d
    /\ covered' = StillCovered(now')
    /\ UNCHANGED <<ticks, taskVars, rlVars>>
    /\ UNCHANGED notClock

\* the clock advances freely
Tick ==
    /\ ticks < MaxTicks
    /\ \E d \in TimeSteps : now' = now + d
    /\ ticks' = ticks + 1
    /\ covered' = StillCovered(now')
    /\ UNCHANGED <<taskVars, rlVars>>
    /\ UNCHANGED notClock

\* ------------------------------------------------------- RateLimiter.acquire
\* what follows a granted acquire(), by the operation the task runs
AfterAcquire(t) ==
    IF op[t] = "acquire" THEN "done" ELSE "http_send"

\* a caller reaches `async with self._lock`
acquire(t) ==
    /\ pc[t] = "idle"
    /\ calls < MaxCalls
    /\ calls' = calls + 1
    /\ op' = [op EXCEPT ![t] = "acquire"]
    /\ pc' = [pc EXCEPT ![t] = "acq_wait_lock"]
    /\ UNCHANGED <<clockVars, wake, result, rlVars, notRL>>

\* the lock is taken; old entries are cleaned
AcquireEnter(t) ==
    /\ pc[t] = "acq_wait_lock"
    /\ rl_lock = NoTask
    /\ rl_lock' = t
    /\ minute_ago' = [minute_ago EXCEPT ![t] = now - MINUTE * Sec]
    /\ hour_ago' = [hour_ago EXCEPT ![t] = now - HOUR * Sec]
    /\ minute_window' = DropOlder(minute_window, now - MINUTE * Sec)
    /\ hour_window' = DropOlder(hour_window, now - HOUR * Sec)
    /\ pc' = [pc EXCEPT ![t] = "acq_min_check"]
    /\ UNCHANGED <<clockVars, calls, op, wake, result, grants, notRL>>

\* mutant: the minute window is not checked
AcquireMinuteCheckNoWait(t) ==
    /\ pc[t] = "acq_min_check"
    /\ pc' = [pc EXCEPT ![t] = "acq_hour_check"]
    /\ UNCHANGED <<clockVars, calls, op, wake, result, rlVars, notRL>>

\* while len(self.minute_window) >= self.rpm_limit: wait_time, sleep
AcquireMinuteCheck(t) ==
    /\ pc[t] = "acq_min_check"
    /\ IF Len(minute_window) >= rpm_limit
       THEN LET wait_time == Head(minute_window) - minute_ago[t]
            IN IF wait_time > 0
               THEN /\ pc' = [pc EXCEPT ![t] = "acq_min_sleep"]
                    /\ wake' = [wake EXCEPT ![t] = now + wait_time]
               ELSE /\ pc' = [pc EXCEPT ![t] = "acq_min_after"]
                    /\ UNCHANGED wake
       ELSE /\ pc' = [pc EXCEPT ![t] = "acq_hour_check"]
            /\ UNCHANGED wake
    /\ UNCHANGED <<clockVars, calls, op, result, rlVars, notRL>>

\* asyncio.sleep(wait_time) of the minute loop ends
AcquireMinuteWake(t) ==
    /\ pc[t] = "acq_min_sleep"
    /\ now >= wake[t]
    /\ pc' = [pc EXCEPT ![t] = "acq_min_after"]
    /\ UNCHANGED <<clockVars, calls, op, wake, result, rlVars, notRL>>

\* now = time.time(); minute_ago = now - 60; clean the minute window
AcquireMinuteAfter(t) ==
    /\ pc[t] = "acq_min_after"
    /\ minute_ago' = [minute_ago EXCEPT ![t] = now - MINUTE * Sec]
    /\ minute_window' = DropOlder(minute_window, now - MINUTE * Sec)
    /\ pc' = [pc EXCEPT ![t] = "acq_min_check"]
    /\ UNCHANGED <<clockVars, calls, op, wake, result, hour_window, hour_ago, rl_lock, grants, notRL>>

\* while len(self.hour_window) >= self.rph_limit: wait_time, sleep;
\* past the loop the request is recorded and the lock released
AcquireHourCheck(t) ==
    /\ pc[t] = "acq_hour_check"
    /\ IF Len(hour_window) >= rph_limit
       THEN LET wait_time == Head(hour_window) - hour_ago[t]
            IN /\ IF wait_time > 0
                  THEN /\ pc' = [pc EXCEPT ![t] = "acq_hour_sleep"]
                       /\ wake' = [wake EXCEPT ![t] = now + wait_time]
                  ELSE /\ pc' = [pc EXCEPT ![t] = "acq_hour_after"]
                       /\ UNCHANGED wake
               /\ UNCHANGED <<minute_window, hour_window, minute_ago, hour_ago, rl_lock, grants>>
       ELSE /\ minute_window' = Append(minute_window, now)
            /\ minute_ago' = [minute_ago EXCEPT ![t] = 0]
            /\ hour_ago' = [hour_ago EXCEPT ![t] = 0]
            /\ hour_window' = Append(hour_window, now)
            /\ grants' = Append(grants, now)
            /\ rl_lock' = NoTask
            /\ pc' = [pc EXCEPT ![t] = AfterAcquire(t)]
            /\ UNCHANGED wake
    /\ UNCHANGED <<clockVars, calls, op, result, notRL>>

\* asyncio.sleep(wait_time) of the hour loop ends
AcquireHourWake(t) ==
    /\ pc[t] = "acq_hour_sleep"
    /\ now >= wake[t]
    /\ pc' = [pc EXCEPT ![t] = "acq_hour_after"]
    /\ UNCHANGED <<clockVars, calls, op, wake, result, rlVars, notRL>>

\* now = time.time(); hour_ago = now - 3600; clean the hour window
AcquireHourAfter(t) ==
    /\ pc[t] = "acq_hour_after"
    /\ hour_ago' = [hour_ago EXCEPT ![t] = now - HOUR * Sec]
    /\ hour_window' = DropOlder(hour_window, now - HOUR * Sec)
    /\ pc' = [pc EXCEPT ![t] = "acq_hour_check"]
    /\ UNCHANGED <<clockVars, calls, op, wake, result, minute_window, minute_ago, rl_lock, grants, notRL>>

\* ------------------------------------------------------------ TokenManager
Ok(v) == [kind |-> "ok", value |-> v]
Raised(e, m) == [kind |-> "raised", exc |-> e, msg |-> m]

\* what follows the end of _request(), by the operation the task runs
RequestEnd(t) ==
    IF op[t] = "upload" THEN "up_after_request"
    ELSE IF op[t] = "resolve" THEN "resolve_after_request"
    ELSE "done"

\* mutant: expires_at is written to the second
save_tokenWholeSeconds(tk) ==
    [access |-> tk.access, expires_at |-> isoformat((tk.expires_at \div Sec) * Sec)]

\* the auth_tokens row that LocalCache.save_token(token) writes under id 1
save_token(tk) ==
    [access |-> tk.access, expires_at |-> isoformat(tk.expires_at)]

\* LocalCache.get_token(): the AuthToken built from the row, if there is one
get_token ==
    IF stored = None
    THEN None
    ELSE [access |-> stored.access, expires_at |-> fromisoformat(stored.expires_at)]

\* TokenManager.load_token(): the value it returns and leaves in self._token
load_token ==
    IF token = None THEN get_token ELSE token

\* expires_in of the tokens the server issues, in seconds
ExpiresIn == {token_refresh_buffer, HOUR}

\* what the server answers to POST /auth/refresh (status 0: no answer at all)
RefreshAnswers ==
    {[status |-> 200, expires_in |-> e] : e \in ExpiresIn}
    \cup {[status |-> c, expires_in |-> 0] : c \in {401, 500, 0}}

\* the AuthToken built from a 200 answer of the auth endpoints
NewToken(a) ==
    [access |-> issued + 1, expires_at |-> now + a.expires_in * Sec]

\* get_valid_token() returns tk with mem left in self._token: the end of the
\* operation, or in _request() the Authorization header and the first attempt
GvtReturn(t, tk, mem) ==
    /\ gvt_out' = [gvt_out EXCEPT ![t] = Ok(tk)]
    /\ late' = [late EXCEPT ![t] = rejected']
    /\ tok' = [tok EXCEPT ![t] = tk]
    /\ IF op[t] = "get_valid_token"
       THEN /\ pc' = [pc EXCEPT ![t] = "done"]
            /\ result' = [result EXCEPT ![t] = Ok(tk)]
            /\ UNCHANGED <<headers, attempt>>
       ELSE IF mem = None
       THEN /\ pc' = [pc EXCEPT ![t] = RequestEnd(t)]
            /\ result' = [result EXCEPT ![t] =
                            Raised("AuthenticationError", "Not authenticated")]
            /\ UNCHANGED <<headers, attempt>>
       ELSE /\ pc' = [pc EXCEPT ![t] = "acq_wait_lock"]
            /\ headers' = [headers EXCEPT ![t] = [bearer |-> mem.access]]
            /\ attempt' = [attempt EXCEPT ![t] = 0]
            /\ UNCHANGED result

\* get_valid_token() raises: the exception leaves _request() too
GvtRaise(t, e, m) ==
    /\ gvt_out' = [gvt_out EXCEPT ![t] = Raised(e, m)]
    /\ late' = [late EXCEPT ![t] = rejected']
    /\ pc' = [pc EXCEPT ![t] = IF op[t] = "get_valid_token" THEN "done" ELSE RequestEnd(t)]
    /\ result' = [result EXCEPT ![t] = Raised(e, m)]
    /\ UNCHANGED <<tok, headers, attempt>>

\* _refresh_token() on the answer a: what it does to the token, or what it raises
RefreshTokenState(a) ==
    IF a.status = 401
    THEN /\ stored' = None
         /\ token' = None
         /\ rejected' = TRUE
         /\ UNCHANGED issued
    ELSE IF a.status = 200
    THEN /\ stored' = save_token(NewToken(a))
         /\ token' = NewToken(a)
         /\ issued' = issued + 1
         /\ UNCHANGED rejected
    ELSE UNCHANGED <<stored, token, issued, rejected>>

RefreshError(a) ==
    IF a.status = 401 THEN Raised("AuthenticationError", "Refresh token expired")
    ELSE IF a.status = 0 THEN Raised("NetworkError", "Network error during token refresh")
    ELSE Raised("AuthenticationError", "Token refresh failed")

\* a caller starts get_valid_token()
get_valid_token(t) ==
    /\ pc[t] = "idle"
    /\ calls < MaxTokenCalls
    /\ calls' = calls + 1
    /\ op' = [op EXCEPT ![t] = "get_valid_token"]
    /\ pc' = [pc EXCEPT ![t] = "gvt_entry"]
    /\ UNCHANGED <<clockVars, wake, result, tmVars, reqVars, notTM>>

\* token = self.load_token(); raise without a token; the first needs_refresh check
GvtEntry(t) ==
    /\ pc[t] = "gvt_entry"
    /\ token' = load_token
    /\ UNCHANGED <<stored, refresh_lock, issued, inflight, sent, covered, rejected>>
    /\ IF load_token = None
       THEN GvtRaise(t, "AuthenticationError", "No authentication token available")
       ELSE IF needs_refresh(load_token, now)
       THEN /\ pc' = [pc EXCEPT ![t] = "gvt_wait_lock"]
            /\ tok' = [tok EXCEPT ![t] = load_token]
            /\ UNCHANGED <<result, headers, attempt, late, gvt_out>>
       ELSE GvtReturn(t, load_token, load_token)
    /\ UNCHANGED <<clockVars, calls, op, wake, notTM>>
    /\ UNCHANGED <<last_exception, http_calls, call_at, n401, last429, got4xx>>

\* mutant: no second check under the lock, the refresh is always sent
GvtLockedNoRecheck(t) ==
    /\ pc[t] = "gvt_wait_lock"
    /\ refresh_lock = NoTask
    /\ token' = load_token
    /\ refresh_lock' = t
    /\ pc' = [pc EXCEPT ![t] = "refresh_wait"]
    /\ tok' = [tok EXCEPT ![t] = load_token]
    /\ inflight' = inflight \cup {t}
    /\ sent' = [sent EXCEPT ![t] = @ + 1]
    /\ UNCHANGED <<result, headers, attempt, late, gvt_out>>
    /\ UNCHANGED <<clockVars, calls, op, wake, notTM>>
    /\ UNCHANGED <<stored, issued, covered, rejected>>
    /\ UNCHANGED <<last_exception, http_calls, call_at, n401, last429, got4xx>>

\* async with self._refresh_lock: the second check, then the refresh request
\* is sent or the token is returned as it is
GvtLocked(t) ==
    /\ pc[t] = "gvt_wait_lock"
    /\ refresh_lock = NoTask
    /\ token' = load_token
    /\ UNCHANGED <<stored, issued, covered, rejected>>
    /\ IF load_token # None /\ needs_refresh(load_token, now)
       THEN /\ refresh_lock' = t
            /\ pc' = [pc EXCEPT ![t] = "refresh_wait"]
            /\ tok' = [tok EXCEPT ![t] = load_token]
            /\ inflight' = inflight \cup {t}
            /\ sent' = [sent EXCEPT ![t] = @ + 1]
            /\ UNCHANGED <<result, headers, attempt, late, gvt_out>>
       ELSE /\ GvtReturn(t, load_token, load_token)
            /\ UNCHANGED <<refresh_lock, inflight, sent>>
    /\ UNCHANGED <<clockVars, calls, op, wake, notTM>>
    /\ UNCHANGED <<last_exception, http_calls, call_at, n401, last429, got4xx>>

\* the refresh sent by get_valid_token() is answered; the lock is released
GvtRefreshResponse(t) ==
    /\ pc[t] = "refresh_wait"
    /\ \E a \in RefreshAnswers :
        /\ RefreshTokenState(a)
        /\ IF a.status = 200
           THEN /\ GvtReturn(t, NewToken(a), NewToken(a))
                /\ covered' = [u \in Tasks |->
                                 IF /\ u = t \/ pc[u] = "gvt_wait_lock"
                                    /\ ~needs_refresh(NewToken(a), now)
                                 THEN [token |-> NewToken(a), by |-> t]
                                 ELSE covered[u]]
           ELSE /\ GvtRaise(t, RefreshError(a).exc, RefreshError(a).msg)
                /\ UNCHANGED covered
    /\ inflight' = inflight \ {t}
    /\ refresh_lock' = NoTask
    /\ UNCHANGED <<clockVars, calls, op, wake, notTM, sent>>
    /\ UNCHANGED <<last_exception, http_calls, call_at, n401, last429, got4xx>>

\* login() is answered with a token, which is saved
login ==
    /\ calls < MaxTokenCalls
    /\ calls' = calls + 1
    /\ \E e \in ExpiresIn :
        /\ stored' = save_token(NewToken([expires_in |-> e]))
        /\ token' = NewToken([expires_in |-> e])
    /\ issued' = issued + 1
    /\ rejected' = FALSE
    /\ covered' = [t \in Tasks |-> None]
    /\ UNCHANGED <<clockVars, pc, op, wake, result, notTM, reqVars>>
    /\ UNCHANGED <<refresh_lock, tok, inflight, sent, late, gvt_out>>

\* what `await client.post(.../auth/logout)` can do: return a response of any
\* status (the code does not look at it), or raise (status 0)
LogoutOutcomes ==
    {[kind |-> "response", status |-> c] : c \in {200, 401, 500}}
    \cup {[kind |-> "raised", status |-> 0]}

\* logout(): with a token in memory POST /auth/logout is sent and awaited;
\* without one the token is cleared at once
logout(t) ==
    /\ pc[t] = "idle"
    /\ calls < MaxTokenCalls
    /\ calls' = calls + 1
    /\ op' = [op EXCEPT ![t] = "logout"]
    /\ IF token # None
       THEN /\ pc' = [pc EXCEPT ![t] = "logout_wait"]
            /\ UNCHANGED <<token, stored, result, fn_in>>
       ELSE /\ pc' = [pc EXCEPT ![t] = "done"]
            /\ stored' = None
            /\ token' = None
            /\ result' = [result EXCEPT ![t] = Ok(None)]
            /\ fn_in' = [call |-> "logout", posted |-> FALSE, outcome |-> None]
    /\ UNCHANGED <<clockVars, wake, rlVars, upVars, fn_out, storeVars, bgVars, reqVars>>
    /\ UNCHANGED <<refresh_lock, tok, issued, inflight, sent, covered, rejected, late, gvt_out>>

\* mutant: a logout request that raised leaves the tokens in place
LogoutClearUnlessRaised(t, o) ==
    /\ stored' = IF o.kind = "raised" THEN stored ELSE None
    /\ token' = IF o.kind = "raised" THEN token ELSE None

\* self.cache.clear_token(); self._token = None
LogoutClear(t, o) ==
    /\ stored' = None
    /\ token' = None

\* the logout request is answered, or fails (`except Exception` only logs):
\* clear_token() and self._token = None
LogoutResponse(t) ==
    /\ pc[t] = "logout_wait"
    /\ \E o \in LogoutOutcomes :
        /\ LogoutClear(t, o)
        /\ fn_in' = [call |-> "logout", posted |-> TRUE, outcome |-> o]
    /\ pc' = [pc EXCEPT ![t] = "done"]
    /\ result' = [result EXCEPT ![t] = Ok(None)]
    /\ UNCHANGED <<clockVars, calls, op, wake, rlVars, upVars, fn_out, storeVars, bgVars, reqVars>>
    /\ UNCHANGED <<refresh_lock, tok, issued, inflight, sent, covered, rejected, late, gvt_out>>

\* ------------------------------------------------------ SyncClient._request
\* hash(time.time()) % 100 of _calculate_backoff: the draws explored
JitterDraws == {0, 99}

\* Retry-After header values of 429 answers, in seconds
RetryAfterValues == {0, 5}

\* what the server answers to a request (status 0: a network-level failure)
HttpAnswers ==
    {[status |-> c, has_retry_after |-> FALSE, retry_after |-> 0] :
        c \in {200, 401, 404, 429, 500, 0}}
    \cup {[status |-> 429, has_retry_after |-> TRUE, retry_after |-> s] :
            s \in RetryAfterValues}

RECURSIVE Pow2(_)
Pow2(n) == IF n = 0 THEN 1 ELSE 2 * Pow2(n - 1)

Min(a, b) == IF a <= b THEN a ELSE b

\* mutant: the jitter goes up to 125% of the delay
calculate_backoffWideJitter(a, j) ==
    LET delay == base_retry_delay * Sec * Pow2(a)
        jitter == (delay * 125 * j) \div (100 * 100)
    IN Min(delay + jitter, max_retry_delay * Sec)

\* _calculate_backoff(attempt) with the jitter draw j, in clock units
calculate_backoff(a, j) ==
    LET delay == base_retry_delay * Sec * Pow2(a)
        jitter == (delay * 25 * j) \div (100 * 100)
    IN Min(delay + jitter, max_retry_delay * Sec)

\* mutant: the Retry-After of the answer is ignored
RateLimitWaitNoHeader(a, att, j) ==
    calculate_backoff(att, j)

\* the wait after a 429: wait_time = e.retry_after or self._calculate_backoff(attempt)
RateLimitWait(a, att, j) ==
    LET retry_after == IF a.has_retry_after THEN a.retry_after ELSE DefaultRetryAfter
    IN IF retry_after # 0 THEN retry_after * Sec ELSE calculate_backoff(att, j)

\* mutant: the loop runs one attempt more than max_retries
NextAttemptOneMore(t, last) ==
    IF attempt[t] < max_retries
    THEN /\ attempt' = [attempt EXCEPT ![t] = @ + 1]
         /\ pc' = [pc EXCEPT ![t] = "acq_wait_lock"]
         /\ UNCHANGED result
    ELSE /\ pc' = [pc EXCEPT ![t] = RequestEnd(t)]
         /\ result' = [result EXCEPT ![t] = Raised("SyncError", "Max retries exceeded")]
         /\ UNCHANGED attempt

\* the for loop goes to its next attempt, or past its end raises last_exception
NextAttempt(t, last) ==
    IF attempt[t] + 1 < max_retries
    THEN /\ attempt' = [attempt EXCEPT ![t] = @ + 1]
         /\ pc' = [pc EXCEPT ![t] = "acq_wait_lock"]
         /\ UNCHANGED result
    ELSE /\ pc' = [pc EXCEPT ![t] = RequestEnd(t)]
         /\ result' = [result EXCEPT ![t] =
                         IF last = None THEN Raised("SyncError", "Max retries exceeded")
                                        ELSE Raised(last.exc, last.msg)]
         /\ UNCHANGED attempt

\* a caller starts _request(): its get_valid_token() comes first
request(t) ==
    /\ pc[t] = "idle"
    /\ calls < MaxCalls
    /\ calls' = calls + 1
    /\ op' = [op EXCEPT ![t] = "request"]
    /\ pc' = [pc EXCEPT ![t] = "gvt_entry"]
    /\ UNCHANGED <<clockVars, wake, result, tmVars, reqVars, notTM>>

\* response = await client.request(...) is sent
ReqHttpSend(t) ==
    /\ pc[t] = "http_send"
    /\ pc' = [pc EXCEPT ![t] = "http_wait"]
    /\ http_calls' = [http_calls EXCEPT ![t] = @ + 1]
    /\ call_at' = [call_at EXCEPT ![t] = now]
    /\ UNCHANGED <<clockVars, calls, op, wake, result, tmVars, notTM>>
    /\ UNCHANGED <<attempt, headers, last_exception, n401, last429, got4xx>>

\* the answer 429: RateLimitError, caught, sleep wait_time
Req429(t, a, j) ==
    /\ a.status = 429
    /\ pc' = [pc EXCEPT ![t] = "req_sleep"]
    /\ wake' = [wake EXCEPT ![t] = now + RateLimitWait(a, attempt[t], j)]
    /\ last_exception' = [last_exception EXCEPT ![t] =
                            Raised("RateLimitError", "Rate limit exceeded")]
    /\ last429' = [last429 EXCEPT ![t] =
                     IF a.has_retry_after
                     THEN [at |-> now, retry_after |-> a.retry_after, calls |-> http_calls[t]]
                     ELSE @]
    /\ UNCHANGED <<result, tmVars, attempt, headers, n401, got4xx>>

\* the answer 401: on attempt 0 the token is refreshed, else AuthenticationError
Req401(t, a) ==
    /\ a.status = 401
    /\ n401' = [n401 EXCEPT ![t] = @ + 1]
    /\ IF attempt[t] = 0
       THEN /\ pc' = [pc EXCEPT ![t] = "refresh_wait_401"]
            /\ inflight' = inflight \cup {t}
            /\ sent' = [sent EXCEPT ![t] = @ + 1]
            /\ UNCHANGED result
       ELSE /\ pc' = [pc EXCEPT ![t] = RequestEnd(t)]
            /\ result' = [result EXCEPT ![t] =
                            Raised("AuthenticationError", "Authentication failed")]
            /\ UNCHANGED <<inflight, sent>>
    /\ UNCHANGED <<wake, attempt, headers, last_exception, last429, got4xx>>
    /\ UNCHANGED <<token, stored, refresh_lock, tok, issued, covered, rejected, late, gvt_out>>

\* a successful answer is returned
Req2xx(t, a) ==
    /\ a.status >= 200 /\ a.status < 300
    /\ pc' = [pc EXCEPT ![t] = RequestEnd(t)]
    /\ result' = [result EXCEPT ![t] = Ok([status |-> a.status])]
    /\ UNCHANGED <<wake, tmVars, attempt, headers, last_exception, n401, last429, got4xx>>

\* mutant: a client error is retried with backoff like a server error
Req4xxRetried(t, a, j) ==
    /\ a.status >= 400 /\ a.status < 500 /\ a.status \notin {401, 429}
    /\ pc' = [pc EXCEPT ![t] = "req_sleep"]
    /\ wake' = [wake EXCEPT ![t] = now + calculate_backoff(attempt[t], j)]
    /\ last_exception' = [last_exception EXCEPT ![t] =
                            Raised("HTTPStatusError", "client error")]
    /\ got4xx' = [got4xx EXCEPT ![t] = [calls |-> http_calls[t]]]
    /\ UNCHANGED <<result, tmVars, attempt, headers, n401, last429>>

\* any other 4xx answer: raise_for_status(), then SyncError, no retry
Req4xx(t, a, j) ==
    /\ a.status >= 400 /\ a.status < 500 /\ a.status \notin {401, 429}
    /\ pc' = [pc EXCEPT ![t] = RequestEnd(t)]
    /\ result' = [result EXCEPT ![t] = Raised("SyncError", "API error")]
    /\ got4xx' = [got4xx EXCEPT ![t] = [calls |-> http_calls[t]]]
    /\ UNCHANGED <<wake, tmVars, attempt, headers, last_exception, n401, last429>>

\* a 5xx answer or a network-level failure: sleep the backoff
ReqRetryable(t, a, j) ==
    /\ a.status >= 500 \/ a.status = 0
    /\ pc' = [pc EXCEPT ![t] = "req_sleep"]
    /\ wake' = [wake EXCEPT ![t] = now + calculate_backoff(attempt[t], j)]
    /\ last_exception' = [last_exception EXCEPT ![t] =
                            IF a.status = 0
                            THEN Raised("NetworkError", "network error")
                            ELSE Raised("HTTPStatusError", "server error")]
    /\ UNCHANGED <<result, tmVars, attempt, headers, n401, last429, got4xx>>

\* the request is answered with one of `answers` and the answer classified;
\* random.random() of a backoff is drawn from `jitters`
ReqHttpResponseFrom(t, answers, jitters) ==
    /\ pc[t] = "http_wait"
    /\ \E a \in answers : \E j \in jitters :
        \/ Req429(t, a, j)
        \/ Req401(t, a)
        \/ Req2xx(t, a)
        \/ Req4xx(t, a, j)
        \/ ReqRetryable(t, a, j)
    /\ UNCHANGED <<clockVars, calls, op, notTM, http_calls, call_at>>

\* the sleep after a failed attempt ends
ReqWake(t) ==
    /\ pc[t] = "req_sleep"
    /\ now >= wake[t]
    /\ NextAttempt(t, last_exception[t])
    /\ UNCHANGED <<clockVars, calls, op, wake, tmVars, notTM>>
    /\ UNCHANGED <<headers, last_exception, http_calls, call_at, n401, last429, got4xx>>

\* the refresh sent after a 401 is answered: new header and `continue`, or raise
ReqRefreshResponse(t) ==
    /\ pc[t] = "refresh_wait_401"
    /\ \E a \in RefreshAnswers :
        /\ RefreshTokenState(a)
        /\ IF a.status = 200
           THEN /\ tok' = [tok EXCEPT ![t] = NewToken(a)]
                /\ headers' = [headers EXCEPT ![t] = [bearer |-> NewToken(a).access]]
                /\ NextAttempt(t, last_exception[t])
           ELSE /\ pc' = [pc EXCEPT ![t] = RequestEnd(t)]
                /\ result' = [result EXCEPT ![t] = RefreshError(a)]
                /\ UNCHANGED <<tok, headers, attempt>>
    /\ inflight' = inflight \ {t}
    /\ UNCHANGED <<clockVars, calls, op, wake, notTM>>
    /\ UNCHANGED <<refresh_lock, sent, covered, late, gvt_out>>
    /\ UNCHANGED <<last_exception, http_calls, call_at, n401, last429, got4xx>>

\* ------------------------------------------------- LocalCache sync queue
\* Python values handed to cache_data()
PyList(items) == [type |-> "list", items |-> items]
PyTuple(items) == [type |-> "tuple", items |-> items]
PyDict(items) == [type |-> "dict", items |-> items]

\* json.dumps(data): a list and a tuple both become a JSON array, a dict
\* becomes a JSON object
json_dumps(v) ==
    IF v.type \in {"list", "tuple"}
    THEN [json |-> "array", items |-> v.items]
    ELSE [json |-> "object", items |-> v.items]

\* json.loads(text): an array becomes a list, an object a dict
json_loads(text) ==
    IF text.json = "array"
    THEN PyList(text.items)
    ELSE PyDict(text.items)

\* SyncItem._calculate_checksum(): the SHA256 of json.dumps(self.data)
calculate_checksum(data) == sha256(json_dumps(data))

\* SyncItem.__post_init__(): the checksum is calculated if none was provided
post_init(item) ==
    IF item.checksum = None
    THEN [item EXCEPT !.checksum = calculate_checksum(item.data)]
    ELSE item

\* the run_data / build_data of an upload, by item type
ItemData(ty) == PyDict(<<ty>>)

ItemTypes == {"combat_run", "build_snapshot"}

\* exceptions that `except SyncError` catches
SyncErrors == {"SyncError", "AuthenticationError", "RateLimitError", "NetworkError",
               "ConflictError"}

\* the ids of the rows present in the queue
Rows == {i \in Ids : queue[i] # None}

\* mutant: the row is written anew and its checksum column is left out
update_item_statusRewrite(q, id, status, error) ==
    IF q[id] = None
    THEN q
    ELSE [q EXCEPT ![id] = [@ EXCEPT !.status = status,
                                     !.last_error = error,
                                     !.updated_at = now,
                                     !.attempts = @ + 1,
                                     !.checksum = None]]

\* LocalCache.update_item_status(item_id, status, error) on the table q
update_item_status(q, id, status, error) ==
    IF q[id] = None
    THEN q
    ELSE [q EXCEPT ![id] = [@ EXCEPT !.status = status,
                                     !.last_error = error,
                                     !.updated_at = now,
                                     !.attempts = @ + 1]]

\* the order of two isoformat texts as SQLite compares TEXT: "+" sorts
\* before "."
TextLeq(a, b) ==
    \/ a.seconds < b.seconds
    \/ /\ a.seconds = b.seconds
       /\ \/ a.fraction = 0
          \/ b.fraction # 0 /\ a.fraction <= b.fraction

\* mutant: no ORDER BY, any `limit` matching rows in any order
DequeueBatchesUnordered(direction, status, limit) ==
    LET match == {i \in Rows : queue[i].direction = direction /\ queue[i].status = status}
        n == Min(limit, Cardinality(match))
    IN {b \in [1..n -> match] : \A x, y \in 1..n : x < y => b[x] # b[y]}

\* mutant: the rows of the other direction are selected
DequeueBatchesOtherDirection(direction, status, limit) ==
    LET match == {i \in Rows : queue[i].direction # direction /\ queue[i].status = status}
        n == Min(limit, Cardinality(match))
        key(i) == isoformat(queue[i].created_at)
    IN {b \in [1..n -> match] :
          /\ \A x, y \in 1..n : x < y => (b[x] # b[y] /\ TextLeq(key(b[x]), key(b[y])))
          /\ \A i \in match \ {b[x] : x \in 1..n} :
                \A x \in 1..n : TextLeq(key(b[x]), key(i))}

\* the rows a dequeue_batch(direction, status, limit) may return: up to
\* `limit` rows of that direction and status, ORDER BY created_at ASC on the
\* stored texts (rows of equal created_at in any order)
DequeueBatches(direction, status, limit) ==
    LET match == {i \in Rows : queue[i].direction = direction /\ queue[i].status = status}
        n == Min(limit, Cardinality(match))
        key(i) == isoformat(queue[i].created_at)
    IN {b \in [1..n -> match] :
          /\ \A x, y \in 1..n : x < y => (b[x] # b[y] /\ TextLeq(key(b[x]), key(b[y])))
          /\ \A i \in match \ {b[x] : x \in 1..n} :
                \A x \in 1..n : TextLeq(key(b[x]), key(i))}

RECURSIVE GroupOrder(_, _)
\* the keys of by_type in insertion order: the item types of `items` in the
\* order of their first occurrence
GroupOrder(items, seen) ==
    IF items = <<>> THEN <<>>
    ELSE LET ty == queue[Head(items)].item_type
         IN IF ty \in seen
            THEN GroupOrder(Tail(items), seen)
            ELSE <<ty>> \o GroupOrder(Tail(items), seen \cup {ty})

\* by_type[ty]: the items of the batch of one type, in batch order
TypeItems(items, ty) ==
    SelectSeq(items, LAMBDA i : queue[i].item_type = ty)

\* what the server reports for one item of a batch
ItemReports ==
    {[success |-> TRUE, has_error |-> FALSE, error |-> "none"],
     [success |-> FALSE, has_error |-> TRUE, error |-> "rejected"],
     [success |-> FALSE, has_error |-> FALSE, error |-> "none"]}

\* the error recorded for a failed item: item_result.get("error", "Unknown error")
ReportedError(r) ==
    IF r.has_error THEN [text |-> r.error] ELSE [text |-> "Unknown error"]

RECURSIVE ApplyResultsWholeBatch(_, _, _)
\* mutant: one failed item fails every item of the batch
ApplyResultsWholeBatch(q, ids, res) ==
    IF ids = <<>> THEN q
    ELSE LET id == Head(ids)
             bad == {i \in DOMAIN res : ~res[i].success}
             q1 == IF id \notin DOMAIN res THEN q
                   ELSE IF bad = {}
                   THEN update_item_status(q, id, "uploaded", None)
                   ELSE update_item_status(q, id, "failed", [text |-> "batch failed"])
         IN ApplyResultsWholeBatch(q1, Tail(ids), res)

RECURSIVE ApplyResults(_, _, _)
\* for item_result in response_data["results"]: uploaded or failed, one by one;
\* res maps the reported ids to their report
ApplyResults(q, ids, res) ==
    IF ids = <<>> THEN q
    ELSE LET id == Head(ids)
             q1 == IF id \notin DOMAIN res THEN q
                   ELSE IF res[id].success
                   THEN update_item_status(q, id, "uploaded", None)
                   ELSE update_item_status(q, id, "failed", ReportedError(res[id]))
         IN ApplyResults(q1, Tail(ids), res)

RECURSIVE MarkAllFailed(_, _, _)
\* except SyncError: every item of the group is marked failed with str(e)
MarkAllFailed(q, ids, e) ==
    IF ids = <<>> THEN q
    ELSE MarkAllFailed(update_item_status(q, Head(ids), "failed", [text |-> e.msg]),
                       Tail(ids), e)

\* results = {"processed": 0, "failed": 0, ...}
NoResults == [processed |-> 0, failed |-> 0]

\* the status changes between the tables q and q2
Changes(q, q2) ==
    {<<q[i].status, q2[i].status>> : i \in {j \in Rows : q[j] # q2[j]}}

\* the row that enqueue() writes for a SyncItem
RowOf(item) ==
    [item_type |-> item.item_type, direction |-> item.direction,
     status |-> item.status, created_at |-> item.created_at,
     data |-> json_dumps(item.data), checksum |-> item.checksum,
     updated_at |-> item.updated_at, attempts |-> item.attempts,
     last_error |-> item.last_error]

\* mutant: INSERT OR IGNORE, a row whose id is present is kept as it is
InsertOrIgnore(q, item) ==
    IF q[item.id] = None THEN [q EXCEPT ![item.id] = RowOf(item)] ELSE q

\* INSERT OR REPLACE INTO sync_queue: the row of the item's id, if any, is
\* deleted and the row of the item is inserted (id is the primary key)
InsertOrReplace(q, item) ==
    [q EXCEPT ![item.id] = RowOf(item)]

\* SyncItem(id, item_type, data, direction): status pending, created_at and
\* updated_at the current time, no attempts, no last_error, the checksum of
\* __post_init__()
NewSyncItem(id, ty, direction) ==
    post_init([id |-> id, item_type |-> ty, direction |-> direction, status |-> "pending",
               data |-> ItemData(ty), checksum |-> None,
               created_at |-> now, updated_at |-> now, attempts |-> 0,
               last_error |-> None])

\* LocalCache.enqueue(item)
enqueue(item) ==
    /\ queue' = InsertOrReplace(queue, item)
    /\ enq_last' = [enq_last EXCEPT ![item.id] =
                        [item |-> item, replaced |-> queue[item.id] # None]]
    /\ UNCHANGED <<restarts, cacheVars, watchVars, bgVars>>
    /\ UNCHANGED <<clockVars, taskVars, rlVars, tmVars, reqVars, fnVars>>
    /\ UNCHANGED <<next_id, up_items, up_groups, up_results, reported, transitions,
                   up_raised>>

\* upload_run() / upload_build_snapshot(): a new pending item is enqueued
upload_item(ty) ==
    /\ next_id < NumItems
    /\ next_id' = next_id + 1
    /\ queue' = InsertOrReplace(queue, NewSyncItem(next_id + 1, ty, "upload"))
    /\ enq_last' = [enq_last EXCEPT ![next_id + 1] =
                        [item |-> NewSyncItem(next_id + 1, ty, "upload"),
                         replaced |-> queue[next_id + 1] # None]]
    /\ UNCHANGED <<restarts, cacheVars, watchVars, bgVars>>
    /\ UNCHANGED <<clockVars, taskVars, rlVars, tmVars, reqVars, fnVars>>
    /\ UNCHANGED <<up_items, up_groups, up_results, reported, transitions, up_raised>>

\* the locals of _request() at the start of a call
FreshRequest(t) ==
    /\ last_exception' = [last_exception EXCEPT ![t] = None]
    /\ http_calls' = [http_calls EXCEPT ![t] = 0]
    /\ call_at' = [call_at EXCEPT ![t] = 0]
    /\ n401' = [n401 EXCEPT ![t] = 0]
    /\ last429' = [last429 EXCEPT ![t] = None]
    /\ got4xx' = [got4xx EXCEPT ![t] = None]

\* pending = dequeue_batch(UPLOAD, PENDING, max_batch_size), and
\* _process_upload_batch(pending) if there are items
DequeueAndProcess(t) ==
    /\ op' = [op EXCEPT ![t] = "upload"]
    /\ \E b \in DequeueBatches("upload", "pending", max_batch_size) :
        /\ up_items' = [up_items EXCEPT ![t] = b]
        /\ up_groups' = [up_groups EXCEPT ![t] = GroupOrder(b, {})]
        /\ up_results' = [up_results EXCEPT ![t] = NoResults]
        /\ up_raised' = [up_raised EXCEPT ![t] = {}]
        /\ IF b = <<>>
           THEN /\ pc' = [pc EXCEPT ![t] = "done"]
                /\ result' = [result EXCEPT ![t] = Ok([success |-> TRUE])]
           ELSE /\ pc' = [pc EXCEPT ![t] = "gvt_entry"]
                /\ UNCHANGED result

\* flush_upload_queue(): the pending batch is dequeued and, unless empty,
\* handed to _process_upload_batch(), whose first group is sent
flush_upload_queue(t) ==
    /\ pc[t] = "idle"
    /\ calls < MaxCalls
    /\ calls' = calls + 1
    /\ DequeueAndProcess(t)
    /\ UNCHANGED <<clockVars, wake, rlVars, tmVars, reqVars, otherVars>>
    /\ UNCHANGED <<queue, next_id, reported, transitions>>

\* response_data["results"]: a result for any of the items sent
AnyResults(ids) == UNION {[S -> ItemReports] : S \in SUBSET ids}

\* a result for every item sent: success, or failure with its error
AllResults(ids) == [ids -> {r \in ItemReports : r.success \/ r.has_error}]

\* the _request() of a group has ended: its results are applied item by item,
\* or a SyncError marks the group failed, or another exception leaves
\* _process_upload_batch(); then the next group is sent or the batch returns.
\* Results(ids) are the results that the response to the items ids may hold
UploadAfterRequestListing(t, Results(_)) ==
    /\ pc[t] = "up_after_request"
    /\ LET ty == Head(up_groups[t])
           type_items == TypeItems(up_items[t], ty)
           ids == {type_items[x] : x \in 1..Len(type_items)}
           more == Tail(up_groups[t]) # <<>>
       IN /\ IF result[t].kind = "ok"
             THEN \E res \in Results(ids) :
                    /\ queue' = ApplyResults(queue, type_items, res)
                    /\ reported' = [i \in Ids |-> IF i \in DOMAIN res THEN res[i]
                                                                      ELSE reported[i]]
                    /\ up_results' = [up_results EXCEPT ![t] =
                          [processed |-> @.processed
                               + Cardinality({i \in DOMAIN res : res[i].success}),
                           failed |-> @.failed
                               + Cardinality({i \in DOMAIN res : ~res[i].success})]]
             ELSE IF result[t].exc \in SyncErrors
             THEN /\ queue' = MarkAllFailed(queue, type_items, result[t])
                  /\ up_results' = [up_results EXCEPT ![t].failed = @ + Len(type_items)]
                  /\ UNCHANGED reported
             ELSE UNCHANGED <<queue, reported, up_results>>
          /\ transitions' = transitions \cup Changes(queue, queue')
          /\ up_raised' = [up_raised EXCEPT ![t] =
                IF result[t].kind = "raised" THEN @ \cup {<<ty, result[t].exc>>} ELSE @]
          /\ IF result[t].kind = "raised" /\ result[t].exc \notin SyncErrors
             THEN /\ pc' = [pc EXCEPT ![t] = "done"]
                  /\ UNCHANGED <<result, up_groups>>
             ELSE IF more
             THEN /\ pc' = [pc EXCEPT ![t] = "gvt_entry"]
                  /\ result' = [result EXCEPT ![t] = None]
                  /\ up_groups' = [up_groups EXCEPT ![t] = Tail(@)]
             ELSE /\ pc' = [pc EXCEPT ![t] = "done"]
                  /\ result' = [result EXCEPT ![t] =
                                    Ok([success |-> up_results'[t].failed = 0])]
                  /\ up_groups' = [up_groups EXCEPT ![t] = Tail(@)]
    /\ FreshRequest(t)
    /\ UNCHANGED <<clockVars, calls, op, wake, rlVars, tmVars, attempt, headers>>
    /\ UNCHANGED <<next_id, up_items, otherVars>>

UploadAfterRequest(t) ==
    UploadAfterRequestListing(t, AnyResults)

\* ConflictResolution values passed to resolve_conflict()
ConflictResolutions == {"server_wins", "client_wins", "manual"}

\* resolve_conflict(item_id, resolution, custom_data): MANUAL without
\* custom_data raises ValueError, which `except SyncError` does not catch;
\* otherwise the POST is made by _request()
resolve_conflict(t, item_id, resolution, custom_data) ==
    /\ pc[t] = "idle"
    /\ calls < MaxCalls
    /\ calls' = calls + 1
    /\ op' = [op EXCEPT ![t] = "resolve"]
    /\ up_items' = [up_items EXCEPT ![t] = <<item_id>>]
    /\ IF resolution = "manual" /\ ~custom_data
       THEN /\ pc' = [pc EXCEPT ![t] = "done"]
            /\ result' = [result EXCEPT ![t] =
                            Raised("ValueError", "Manual resolution requires custom_data")]
       ELSE /\ pc' = [pc EXCEPT ![t] = "gvt_entry"]
            /\ UNCHANGED result
    /\ UNCHANGED <<clockVars, wake, rlVars, tmVars, reqVars, otherVars>>
    /\ UNCHANGED <<queue, next_id, up_groups, up_results, reported, transitions, up_raised>>

\* mutant: any response returned by _request() marks the item uploaded
ResolvedAnyStatus(r) == r.kind = "ok"

\* if response.status_code == 200
Resolved(r) == r.kind = "ok" /\ r.value.status = 200

\* the _request() of resolve_conflict() has ended: status 200 marks the item
\* uploaded and returns True; another response, or a SyncError, returns
\* False; any other exception leaves resolve_conflict()
ResolveAfterRequest(t) ==
    /\ pc[t] = "resolve_after_request"
    /\ pc' = [pc EXCEPT ![t] = "done"]
    /\ LET item_id == up_items[t][1]
       IN IF Resolved(result[t])
          THEN /\ queue' = update_item_status(queue, item_id, "uploaded", None)
               /\ result' = [result EXCEPT ![t] = Ok(TRUE)]
          ELSE IF result[t].kind = "ok" \/ result[t].exc \in SyncErrors
          THEN /\ result' = [result EXCEPT ![t] = Ok(FALSE)]
               /\ UNCHANGED queue
          ELSE UNCHANGED <<queue, result>>
    /\ transitions' = transitions \cup Changes(queue, queue')
    /\ FreshRequest(t)
    /\ UNCHANGED <<clockVars, calls, op, wake, rlVars, tmVars, attempt, headers>>
    /\ UNCHANGED <<next_id, up_items, up_groups, up_results, reported, up_raised, otherVars>>

\* the locals of a finished operation are gone
ReturnToIdle(t) ==
    /\ pc' = [pc EXCEPT ![t] = "idle"]
    /\ op' = [op EXCEPT ![t] = "none"]
    /\ result' = [result EXCEPT ![t] = None]
    /\ tok' = [tok EXCEPT ![t] = None]
    /\ sent' = [sent EXCEPT ![t] = 0]
    /\ covered' = [covered EXCEPT ![t] = None]
    /\ late' = [late EXCEPT ![t] = FALSE]
    /\ gvt_out' = [gvt_out EXCEPT ![t] = None]
    /\ attempt' = [attempt EXCEPT ![t] = 0]
    /\ headers' = [headers EXCEPT ![t] = None]
    /\ last_exception' = [last_exception EXCEPT ![t] = None]
    /\ http_calls' = [http_calls EXCEPT ![t] = 0]
    /\ call_at' = [call_at EXCEPT ![t] = 0]
    /\ n401' = [n401 EXCEPT ![t] = 0]
    /\ last429' = [last429 EXCEPT ![t] = None]
    /\ got4xx' = [got4xx EXCEPT ![t] = None]

\* the caller of a finished operation is free for the next one
Finish(t) ==
    /\ pc[t] = "done"
    /\ ReturnToIdle(t)
    /\ UNCHANGED <<clockVars, calls, wake, rlVars, upVars, otherVars>>
    /\ UNCHANGED <<token, stored, refresh_lock, issued, inflight, rejected>>

\* ------------------------------------------------- LocalCache: cached_data
\* what the callers of cache_data() pass as data: values of response.json(),
\* the list data.get("recommendations", []) or the dict of feature updates
Payloads ==
    {PyList(<<>>), PyList(<<"rec">>), PyDict(<<"features">>)}

\* the ttl_seconds of a cache_data() call, None when the argument is left out
Ttls == {None, [seconds |-> 0], [seconds |-> MINUTE]}

\* the truth value of `ttl_seconds`
Truthy(ttl_seconds) ==
    /\ ttl_seconds # None
    /\ ttl_seconds.seconds # 0

\* INSERT OR REPLACE INTO cached_data of cache_data()
CacheWrite(key, data, ttl_seconds) ==
    /\ LET expires_at == IF Truthy(ttl_seconds)
                         THEN isoformat(now + ttl_seconds.seconds * Sec)
                         ELSE None
       IN cache' = [cache EXCEPT ![key] = [data |-> json_dumps(data),
                                          cached_at |-> isoformat(now),
                                          expires_at |-> expires_at]]
    /\ cache_last' = [cache_last EXCEPT ![key] =
                          [data |-> data, at |-> now, ttl_seconds |-> ttl_seconds]]

\* cache_data(key, data_type, data, server_timestamp, ttl_seconds): the row
\* of the key is written anew; `if ttl_seconds:` gives no expiry for None and 0
\* (data_type, checksum and server_timestamp, which get_cached() does not read,
\* are left out of the row)
cache_data(key, data, ttl_seconds) ==
    /\ CacheWrite(key, data, ttl_seconds)
    /\ fn_in' = None
    /\ fn_out' = None
    /\ UNCHANGED <<metadata, cached>>
    /\ UNCHANGED <<clockVars, taskVars, rlVars, tmVars, reqVars, upVars, enq_last, restarts, watchVars,
                   bgVars>>

\* mutant: an entry expires only after expires_at
ExpiredStrictly(row, at) ==
    /\ row.expires_at # None
    /\ at > fromisoformat(row.expires_at)

\* `if row["expires_at"]: ... if now >= expires_at`
Expired(row, at) ==
    /\ row.expires_at # None
    /\ at >= fromisoformat(row.expires_at)

\* get_cached(key): no row gives None; an expired row is deleted and gives
\* None; any other row gives json.loads of its data
get_cached(key) ==
    /\ fn_in' = [key |-> key, at |-> now, table |-> cache]
    /\ IF cache[key] = None
       THEN /\ cache' = cache
            /\ fn_out' = [value |-> None, table |-> cache']
       ELSE IF Expired(cache[key], now)
       THEN /\ cache' = [cache EXCEPT ![key] = None]
            /\ fn_out' = [value |-> None, table |-> cache']
       ELSE /\ cache' = cache
            /\ fn_out' = [value |-> json_loads(cache[key].data), table |-> cache']
    /\ UNCHANGED <<clockVars, taskVars, rlVars, tmVars, reqVars, upVars, enq_last, restarts, watchVars,
                   cache_last, metadata, cached, bgVars>>

\* --------------------------------------------- SyncClient: background sync
\* the task that runs _background_sync_loop() and the calls it makes
SyncTask == 1

\* awaits at which the sync task can be suspended when it alone uses the client
Awaits == {"acq_min_sleep", "acq_hour_sleep", "http_wait", "refresh_wait", "refresh_wait_401",
           "req_sleep"}

\* the sync task is suspended, in a sleep of the loop or inside a call
Suspended ==
    \/ loop_pc \in {"sleep", "backoff"}
    \/ pc[SyncTask] \in Awaits

\* an exception that `except SyncError` of the callee does not catch
Escapes(r) ==
    /\ r.kind = "raised"
    /\ r.exc \notin SyncErrors

\* what the loop leaves alone when it moves on without a call
LoopOnly ==
    UNCHANGED <<clockVars, taskVars, rlVars, tmVars, reqVars, upVars, fnVars, storeVars>>

\* start_background_sync(): nothing if already running; otherwise the task is
\* created and the loop takes its three time stamps
start_background_sync ==
    /\ calls < MaxCalls
    /\ calls' = calls + 1
    /\ loop_pc \in {"none", "ended"} \/ Suspended
    /\ IF running
       THEN UNCHANGED bgVars
       ELSE /\ running' = TRUE
            /\ loop_pc' = "top"
            /\ last_upload' = now
            /\ last_download' = now
            /\ last_full_sync' = now
            /\ UNCHANGED <<lifeVars, loop_wake, loop_now, loop_iter, loop_errors, err_iter>>
    /\ UNCHANGED <<clockVars, pc, op, wake, result, rlVars, tmVars, reqVars, upVars, fnVars,
                   storeVars>>

\* while self._running: ... now = time.time(), for the first n iterations
LoopIterateUpTo(n) ==
    /\ loop_pc = "top"
    /\ loop_iter < n
    /\ IF running
       THEN /\ loop_pc' = "check_upload"
            /\ loop_now' = now
            /\ loop_iter' = loop_iter + 1
       ELSE /\ loop_pc' = "ended"
            /\ UNCHANGED <<loop_now, loop_iter>>
    /\ UNCHANGED <<lifeVars, running, loop_wake, last_upload, last_download, last_full_sync, loop_errors,
                   err_iter>>
    /\ LoopOnly

LoopIterate ==
    LoopIterateUpTo(MaxIterations)

\* mutant: an exception of a cycle ends the loop
OnCycleErrorEnds ==
    /\ loop_errors' = loop_errors + 1
    /\ err_iter' = loop_iter
    /\ loop_pc' = "ended"
    /\ UNCHANGED <<lifeVars, running, loop_wake, loop_now, loop_iter, last_upload, last_download,
                   last_full_sync>>

\* except Exception: logger.error(...); await asyncio.sleep(10)
OnCycleError ==
    /\ loop_errors' = loop_errors + 1
    /\ err_iter' = loop_iter
    /\ loop_pc' = "backoff"
    /\ loop_wake' = now + 10 * Sec
    /\ UNCHANGED <<lifeVars, running, loop_now, loop_iter, last_upload, last_download, last_full_sync>>

\* if now - last_upload >= upload_interval: the batch is dequeued and processed
LoopCheckUpload ==
    /\ loop_pc = "check_upload"
    /\ IF loop_now - last_upload >= upload_interval * Sec
       THEN /\ loop_pc' = "upload"
            /\ DequeueAndProcess(SyncTask)
            /\ UNCHANGED <<calls, wake>>
       ELSE /\ loop_pc' = "check_download"
            /\ UNCHANGED <<taskVars, up_items, up_groups, up_results, up_raised>>
    /\ UNCHANGED <<lifeVars, running, loop_wake, loop_now, last_upload, last_download, last_full_sync,
                   loop_iter, loop_errors, err_iter>>
    /\ UNCHANGED <<clockVars, rlVars, tmVars, reqVars, fnVars, storeVars>>
    /\ UNCHANGED <<queue, next_id, reported, transitions>>

\* _process_upload_batch() has returned or raised: last_upload = now, or the
\* exception reaches the handler of the loop
LoopAfterUpload ==
    /\ loop_pc = "upload"
    /\ pc[SyncTask] = "done"
    /\ IF Escapes(result[SyncTask])
       THEN OnCycleError
       ELSE /\ loop_pc' = "check_download"
            /\ last_upload' = loop_now
            /\ UNCHANGED <<lifeVars, running, loop_wake, loop_now, last_download, last_full_sync,
                           loop_iter, loop_errors, err_iter>>
    /\ ReturnToIdle(SyncTask)
    /\ UNCHANGED <<clockVars, calls, wake, rlVars, upVars, fnVars, storeVars>>
    /\ UNCHANGED <<token, stored, refresh_lock, issued, inflight, rejected>>

\* download_recommendations() up to its request: get_cached(cache_key), which
\* deletes an expired row, and `if cached: return cached`
DownloadStart(t, key) ==
    /\ op' = [op EXCEPT ![t] = "download"]
    /\ cache' = IF cache[key] # None /\ Expired(cache[key], now)
                THEN [cache EXCEPT ![key] = None]
                ELSE cache
    /\ cached' = [cached EXCEPT ![t] = IF cache[key] # None /\ ~Expired(cache[key], now)
                                       THEN json_loads(cache[key].data)
                                       ELSE None]
    /\ IF /\ cache[key] # None
          /\ ~Expired(cache[key], now)
          /\ json_loads(cache[key].data).items # <<>>
       THEN /\ pc' = [pc EXCEPT ![t] = "done"]
            /\ result' = [result EXCEPT ![t] = Ok([status |-> 0])]
       ELSE /\ pc' = [pc EXCEPT ![t] = "gvt_entry"]
            /\ UNCHANGED result
    /\ UNCHANGED cache_last

\* `cached or []`
CachedOrEmpty(c) ==
    IF c # None /\ c.items # <<>> THEN c ELSE PyList(<<>>)

\* download_recommendations() after its request: the answer is cached for
\* five minutes; a SyncError gives `cached or []`
DownloadEnd(t, key) ==
    /\ IF result[t] = Ok([status |-> 200])
       THEN \E data \in {PyList(<<>>), PyList(<<"rec">>)} :
               CacheWrite(key, data, [seconds |-> 5 * MINUTE])
       ELSE UNCHANGED <<cache, cache_last>>
    /\ cached' = [cached EXCEPT ![t] = None]

\* if now - last_download >= download_interval: download_recommendations()
LoopCheckDownload ==
    /\ loop_pc = "check_download"
    /\ IF loop_now - last_download >= download_interval * Sec
       THEN /\ loop_pc' = "download"
            /\ DownloadStart(SyncTask, "recommendations:all:all")
            /\ UNCHANGED <<calls, wake, metadata>>
       ELSE /\ loop_pc' = "check_full"
            /\ UNCHANGED <<taskVars, cacheVars>>
    /\ UNCHANGED <<lifeVars, running, loop_wake, loop_now, last_upload, last_download, last_full_sync,
                   loop_iter, loop_errors, err_iter>>
    /\ UNCHANGED <<clockVars, rlVars, tmVars, reqVars, upVars, fnVars, enq_last, restarts, watchVars>>

\* download_recommendations() has returned or raised
LoopAfterDownload ==
    /\ loop_pc = "download"
    /\ pc[SyncTask] = "done"
    /\ DownloadEnd(SyncTask, "recommendations:all:all")
    /\ UNCHANGED metadata
    /\ IF Escapes(result[SyncTask])
       THEN OnCycleError
       ELSE /\ loop_pc' = "check_full"
            /\ last_download' = loop_now
            /\ UNCHANGED <<lifeVars, running, loop_wake, loop_now, last_upload, last_full_sync,
                           loop_iter, loop_errors, err_iter>>
    /\ ReturnToIdle(SyncTask)
    /\ UNCHANGED <<clockVars, calls, wake, rlVars, upVars, fnVars, enq_last, restarts, watchVars>>
    /\ UNCHANGED <<token, stored, refresh_lock, issued, inflight, rejected>>

\* if now - last_full_sync >= full_sync_interval: sync_all(), which begins
\* with flush_upload_queue(); otherwise await asyncio.sleep(1)
LoopCheckFull ==
    /\ loop_pc = "check_full"
    /\ IF loop_now - last_full_sync >= full_sync_interval * Sec
       THEN /\ loop_pc' = "full_upload"
            /\ DequeueAndProcess(SyncTask)
            /\ UNCHANGED <<calls, wake, loop_wake>>
       ELSE /\ loop_pc' = "sleep"
            /\ loop_wake' = now + 1 * Sec
            /\ UNCHANGED <<taskVars, up_items, up_groups, up_results, up_raised>>
    /\ UNCHANGED <<lifeVars, running, loop_now, last_upload, last_download, last_full_sync,
                   loop_iter, loop_errors, err_iter>>
    /\ UNCHANGED <<clockVars, rlVars, tmVars, reqVars, fnVars, storeVars>>
    /\ UNCHANGED <<queue, next_id, reported, transitions>>

\* sync_all(): flush_upload_queue() has returned, or its exception leaves
\* sync_all() and reaches the handler of the loop
LoopAfterFullUpload ==
    /\ loop_pc = "full_upload"
    /\ pc[SyncTask] = "done"
    /\ IF Escapes(result[SyncTask])
       THEN OnCycleError
       ELSE /\ loop_pc' = "full_recommendations"
            /\ UNCHANGED <<lifeVars, running, loop_wake, loop_now, last_upload, last_download,
                           last_full_sync, loop_iter, loop_errors, err_iter>>
    /\ ReturnToIdle(SyncTask)
    /\ UNCHANGED <<clockVars, calls, wake, rlVars, upVars, fnVars, storeVars>>
    /\ UNCHANGED <<token, stored, refresh_lock, issued, inflight, rejected>>

\* sync_all(): last_sync = get_metadata("last_recommendation_sync") and
\* download_recommendations(since) inside try (the `since` part of the cache
\* key is left out)
LoopFullRecommendations ==
    /\ loop_pc = "full_recommendations"
    /\ loop_pc' = "full_recommendations_wait"
    /\ DownloadStart(SyncTask, "recommendations:all:all")
    /\ UNCHANGED metadata
    /\ UNCHANGED <<lifeVars, running, loop_wake, loop_now, last_upload, last_download, last_full_sync,
                   loop_iter, loop_errors, err_iter>>
    /\ UNCHANGED <<clockVars, calls, wake, rlVars, tmVars, reqVars, upVars, fnVars, enq_last,
                   restarts, watchVars>>

\* the last_recommendation_sync that sync_all() leaves when the request of
\* download_recommendations() ended with r: set_metadata(..., now) once the
\* download has returned, nothing when its exception reached `except Exception`
set_metadata(r) ==
    IF Escapes(r) THEN metadata ELSE isoformat(now)

\* sync_all(): the download has returned and the watermark is written, or
\* `except Exception` has noted its failure
LoopAfterFullRecommendations ==
    /\ loop_pc = "full_recommendations_wait"
    /\ pc[SyncTask] = "done"
    /\ DownloadEnd(SyncTask, "recommendations:all:all")
    /\ metadata' = set_metadata(result[SyncTask])
    /\ loop_pc' = "full_features"
    /\ UNCHANGED <<lifeVars, running, loop_wake, loop_now, last_upload, last_download, last_full_sync,
                   loop_iter, loop_errors, err_iter>>
    /\ ReturnToIdle(SyncTask)
    /\ UNCHANGED <<clockVars, calls, wake, rlVars, upVars, fnVars, enq_last, restarts, watchVars>>
    /\ UNCHANGED <<token, stored, refresh_lock, issued, inflight, rejected>>

\* sync_all(): download_feature_updates() inside try, up to its request
\* (get_cached_checksum() only reads)
LoopFullFeatures ==
    /\ loop_pc = "full_features"
    /\ loop_pc' = "full_features_wait"
    /\ op' = [op EXCEPT ![SyncTask] = "download"]
    /\ pc' = [pc EXCEPT ![SyncTask] = "gvt_entry"]
    /\ UNCHANGED <<lifeVars, running, loop_wake, loop_now, last_upload, last_download, last_full_sync,
                   loop_iter, loop_errors, err_iter>>
    /\ UNCHANGED <<clockVars, calls, wake, result, rlVars, tmVars, reqVars, upVars, fnVars,
                   storeVars>>

\* sync_all(): download_feature_updates() has cached the answer for a day, or
\* on a SyncError has read the cache (an expired row is deleted), or its
\* exception is noted; sync_all() returns, last_full_sync = now and
\* await asyncio.sleep(1)
LoopAfterFullFeatures ==
    /\ loop_pc = "full_features_wait"
    /\ pc[SyncTask] = "done"
    /\ IF result[SyncTask].kind = "ok"
       THEN CacheWrite("feature_updates", PyDict(<<"features">>), [seconds |-> 24 * HOUR])
       ELSE IF /\ ~Escapes(result[SyncTask])
               /\ cache["feature_updates"] # None
               /\ Expired(cache["feature_updates"], now)
       THEN /\ cache' = [cache EXCEPT !["feature_updates"] = None]
            /\ UNCHANGED cache_last
       ELSE UNCHANGED <<cache, cache_last>>
    /\ UNCHANGED <<metadata, cached>>
    /\ loop_pc' = "sleep"
    /\ loop_wake' = now + 1 * Sec
    /\ last_full_sync' = loop_now
    /\ UNCHANGED <<lifeVars, running, loop_now, last_upload, last_download, loop_iter, loop_errors,
                   err_iter>>
    /\ ReturnToIdle(SyncTask)
    /\ UNCHANGED <<clockVars, calls, wake, rlVars, upVars, fnVars, enq_last, restarts, watchVars>>
    /\ UNCHANGED <<token, stored, refresh_lock, issued, inflight, rejected>>

\* asyncio.sleep(1) or asyncio.sleep(10) of the loop ends
LoopWake ==
    /\ loop_pc \in {"sleep", "backoff"}
    /\ now >= loop_wake
    /\ loop_pc' = "top"
    /\ UNCHANGED <<lifeVars, running, loop_wake, loop_now, last_upload, last_download, last_full_sync,
                   loop_iter, loop_errors, err_iter>>
    /\ LoopOnly

\* self._sync_task.cancel(): CancelledError is raised at the await the task
\* is suspended at; no handler of _request(), _process_upload_batch() or the
\* download functions catches it, the locks held are released on the way out,
\* and the loop breaks (or, from the sleep of its handler, the task ends)
CancelSyncTask ==
    /\ loop_pc' = "ended"
    /\ ReturnToIdle(SyncTask)
    /\ wake' = [wake EXCEPT ![SyncTask] = 0]
    /\ rl_lock' = IF rl_lock = SyncTask THEN NoTask ELSE rl_lock
    /\ refresh_lock' = IF refresh_lock = SyncTask THEN NoTask ELSE refresh_lock
    /\ inflight' = inflight \ {SyncTask}
    /\ up_items' = [up_items EXCEPT ![SyncTask] = <<>>]
    /\ up_groups' = [up_groups EXCEPT ![SyncTask] = <<>>]
    /\ up_results' = [up_results EXCEPT ![SyncTask] = NoResults]
    /\ up_raised' = [up_raised EXCEPT ![SyncTask] = {}]

\* what stop_background_sync() and close() do to the loop: self._running =
\* False, and the task, if it still runs, is cancelled at once
StopSyncTask ==
    /\ calls < MaxCalls
    /\ calls' = calls + 1
    /\ running' = FALSE
    /\ IF loop_pc \in {"none", "ended"}
       THEN UNCHANGED <<loop_pc, pc, op, wake, result, rl_lock, refresh_lock, inflight, tok,
                        sent, covered, late, gvt_out, reqVars, up_items, up_groups, up_results,
                        up_raised>>
       ELSE /\ Suspended
            /\ CancelSyncTask
    /\ UNCHANGED <<lifeVars, loop_wake, loop_now, last_upload, last_download, last_full_sync,
                   loop_iter, loop_errors, err_iter>>
    /\ UNCHANGED <<clockVars, minute_window, hour_window, minute_ago, hour_ago, grants, token,
                   stored, issued, rejected, queue, next_id, reported, transitions, fnVars,
                   storeVars>>

stop_background_sync ==
    StopSyncTask

\* close(): as stop_background_sync(); then the HTTP clients are closed
close ==
    StopSyncTask

\* the process starts again: SyncClient.__init__ sets _sync_task to None, and
\* no task of the old process is left
ResetLifecycle ==
    /\ sync_task' = NoTask
    /\ loop_tasks' = [l \in LoopTasks |-> "none"]
    /\ awaited' = [t \in Tasks |-> NoTask]

\* mutant: the tables are created anew when the store is opened
RestartEmptyStore ==
    /\ restarts < MaxRestarts
    /\ restarts' = restarts + 1
    /\ queue' = [i \in Ids |-> None]
    /\ stored' = None
    /\ pc' = [t \in Tasks |-> "idle"]
    /\ op' = [t \in Tasks |-> "none"]
    /\ wake' = [t \in Tasks |-> 0]
    /\ result' = [t \in Tasks |-> None]
    /\ minute_window' = <<>>
    /\ hour_window' = <<>>
    /\ minute_ago' = [t \in Tasks |-> 0]
    /\ hour_ago' = [t \in Tasks |-> 0]
    /\ rl_lock' = NoTask
    /\ grants' = <<>>
    /\ token' = None
    /\ refresh_lock' = NoTask
    /\ tok' = [t \in Tasks |-> None]
    /\ inflight' = {}
    /\ sent' = [t \in Tasks |-> 0]
    /\ covered' = [t \in Tasks |-> None]
    /\ late' = [t \in Tasks |-> FALSE]
    /\ gvt_out' = [t \in Tasks |-> None]
    /\ attempt' = [t \in Tasks |-> 0]
    /\ headers' = [t \in Tasks |-> None]
    /\ last_exception' = [t \in Tasks |-> None]
    /\ http_calls' = [t \in Tasks |-> 0]
    /\ call_at' = [t \in Tasks |-> 0]
    /\ n401' = [t \in Tasks |-> 0]
    /\ last429' = [t \in Tasks |-> None]
    /\ got4xx' = [t \in Tasks |-> None]
    /\ up_items' = [t \in Tasks |-> <<>>]
    /\ up_groups' = [t \in Tasks |-> <<>>]
    /\ up_results' = [t \in Tasks |-> NoResults]
    /\ up_raised' = [t \in Tasks |-> {}]
    /\ UNCHANGED <<clockVars, calls, issued, rejected, next_id, reported, transitions,
                   enq_last, cacheVars, fnVars>>
    /\ ResetWatcher
    /\ running' = FALSE
    /\ loop_pc' = "none"
    /\ ResetLifecycle
    /\ UNCHANGED <<loop_wake, loop_now, last_upload, last_download, last_full_sync, loop_iter,
                   loop_errors, err_iter>>

\* the agent process is killed, at any point, and started again: every object
\* in memory is built anew by SyncClient.__init__ (all coroutines are gone),
\* while the tables of the store, opened with CREATE TABLE IF NOT EXISTS,
\* keep the rows last committed
Restart ==
    /\ restarts < MaxRestarts
    /\ restarts' = restarts + 1
    /\ pc' = [t \in Tasks |-> "idle"]
    /\ op' = [t \in Tasks |-> "none"]
    /\ wake' = [t \in Tasks |-> 0]
    /\ result' = [t \in Tasks |-> None]
    /\ minute_window' = <<>>
    /\ hour_window' = <<>>
    /\ minute_ago' = [t \in Tasks |-> 0]
    /\ hour_ago' = [t \in Tasks |-> 0]
    /\ rl_lock' = NoTask
    /\ grants' = <<>>
    /\ token' = None
    /\ refresh_lock' = NoTask
    /\ tok' = [t \in Tasks |-> None]
    /\ inflight' = {}
    /\ sent' = [t \in Tasks |-> 0]
    /\ covered' = [t \in Tasks |-> None]
    /\ late' = [t \in Tasks |-> FALSE]
    /\ gvt_out' = [t \in Tasks |-> None]
    /\ attempt' = [t \in Tasks |-> 0]
    /\ headers' = [t \in Tasks |-> None]
    /\ last_exception' = [t \in Tasks |-> None]
    /\ http_calls' = [t \in Tasks |-> 0]
    /\ call_at' = [t \in Tasks |-> 0]
    /\ n401' = [t \in Tasks |-> 0]
    /\ last429' = [t \in Tasks |-> None]
    /\ got4xx' = [t \in Tasks |-> None]
    /\ up_items' = [t \in Tasks |-> <<>>]
    /\ up_groups' = [t \in Tasks |-> <<>>]
    /\ up_results' = [t \in Tasks |-> NoResults]
    /\ up_raised' = [t \in Tasks |-> {}]
    /\ UNCHANGED <<clockVars, calls, stored, issued, rejected, queue, next_id, reported,
                   transitions, enq_last, cacheVars, fnVars>>
    /\ ResetWatcher
    /\ running' = FALSE
    /\ loop_pc' = "none"
    /\ ResetLifecycle
    /\ UNCHANGED <<loop_wake, loop_now, last_upload, last_download, last_full_sync, loop_iter,
                   loop_errors, err_iter>>

\* the process is killed inside the `except SyncError` loop of
\* _process_upload_batch(), after some of the group's items were marked
\* failed, and started again
RestartWhileMarkingFailed(t) ==
    /\ pc[t] = "up_after_request"
    /\ result[t].kind = "raised"
    /\ result[t].exc \in SyncErrors
    /\ LET type_items == TypeItems(up_items[t], Head(up_groups[t]))
       IN \E k \in 1..Len(type_items) :
            queue' = MarkAllFailed(queue, SubSeq(type_items, 1, k), result[t])
    /\ transitions' = transitions \cup Changes(queue, queue')
    /\ restarts < MaxRestarts
    /\ restarts' = restarts + 1
    /\ pc' = [u \in Tasks |-> "idle"]
    /\ op' = [u \in Tasks |-> "none"]
    /\ wake' = [u \in Tasks |-> 0]
    /\ result' = [u \in Tasks |-> None]
    /\ minute_window' = <<>>
    /\ hour_window' = <<>>
    /\ minute_ago' = [u \in Tasks |-> 0]
    /\ hour_ago' = [u \in Tasks |-> 0]
    /\ rl_lock' = NoTask
    /\ grants' = <<>>
    /\ token' = None
    /\ refresh_lock' = NoTask
    /\ tok' = [u \in Tasks |-> None]
    /\ inflight' = {}
    /\ sent' = [u \in Tasks |-> 0]
    /\ covered' = [u \in Tasks |-> None]
    /\ late' = [u \in Tasks |-> FALSE]
    /\ gvt_out' = [u \in Tasks |-> None]
    /\ attempt' = [u \in Tasks |-> 0]
    /\ headers' = [u \in Tasks |-> None]
    /\ last_exception' = [u \in Tasks |-> None]
    /\ http_calls' = [u \in Tasks |-> 0]
    /\ call_at' = [u \in Tasks |-> 0]
    /\ n401' = [u \in Tasks |-> 0]
    /\ last429' = [u \in Tasks |-> None]
    /\ got4xx' = [u \in Tasks |-> None]
    /\ up_items' = [u \in Tasks |-> <<>>]
    /\ up_groups' = [u \in Tasks |-> <<>>]
    /\ up_results' = [u \in Tasks |-> NoResults]
    /\ up_raised' = [u \in Tasks |-> {}]
    /\ UNCHANGED <<clockVars, calls, stored, issued, rejected, next_id, reported,
                   enq_last, cacheVars, fnVars>>
    /\ ResetWatcher
    /\ running' = FALSE
    /\ loop_pc' = "none"
    /\ ResetLifecycle
    /\ UNCHANGED <<loop_wake, loop_now, last_upload, last_download, last_full_sync, loop_iter,
                   loop_errors, err_iter>>

\* ------------------------------------------------------------ LuaTableParser
\* A text is a sequence of characters (strings of length one); positions are
\* those of the code, counted from 0.
Digits == {"0", "1", "2", "3", "4", "5", "6", "7", "8", "9"}
HexLetters == {"a", "b", "c", "d", "e", "f", "A", "B", "C", "D", "E", "F"}
Letters ==
    HexLetters \cup
    {"g", "h", "i", "j", "k", "l", "m", "n", "o", "p", "q", "r", "s", "t", "u", "v", "w", "x",
     "y", "z", "G", "H", "I", "J", "K", "L", "M", "N", "O", "P", "Q", "R", "S", "T", "U", "V",
     "W", "X", "Y", "Z"}

\* content[pos], for 0 <= pos < len(content)
At(content, pos) == content[pos + 1]

\* content[a:b]
Slice(content, a, b) == SubSeq(content, a + 1, Min(b, Len(content)))

\* content[pos:].startswith(word)
StartsWith(content, pos, word) == Slice(content, pos, pos + Len(word)) = word

\* content.find(sub, start): the first position at or after start, or -1
RECURSIVE Find(_, _, _)
Find(content, sub, start) ==
    IF start + Len(sub) > Len(content) THEN -1
    ELSE IF StartsWith(content, start, sub) THEN start
    ELSE Find(content, sub, start + 1)

isspace(c) == c \in {" ", "\n", "\t", "\r"}
isalpha(c) == c \in Letters

\* Python values: the type and what makes up the value
PyInt(n) == [type |-> "int", items |-> <<n>>]
PyBool(b) == [type |-> "bool", items |-> <<IF b THEN 1 ELSE 0>>]
PyStr(chars) == [type |-> "str", items |-> chars]
PyNone == [type |-> "NoneType", items |-> <<>>]

RECURSIVE Pow10(_)
Pow10(n) == IF n = 0 THEN 1 ELSE 10 * Pow10(n - 1)

\* a float is kept as mantissa * 10^exponent, the mantissa no multiple of ten
RECURSIVE PyFloat(_, _)
PyFloat(mantissa, exponent) ==
    IF mantissa = 0 THEN [type |-> "float", items |-> <<0, 0>>]
    ELSE IF mantissa % 10 = 0 THEN PyFloat(mantissa \div 10, exponent + 1)
    ELSE [type |-> "float", items |-> <<mantissa, exponent>>]

\* the value of an int or a bool
IsNumber(v) == v.type \in {"int", "bool", "float"}
Num(v) == v.items[1]

\* a float equals the integer n
FloatIsInt(v, n) ==
    LET m == v.items[1]
        e == v.items[2]
    IN IF m = 0 THEN n = 0
       ELSE /\ e >= 0
            /\ e <= 9
            /\ n % Pow10(e) = 0
            /\ n \div Pow10(e) = m

\* a == b of Python: numbers compare by value across int, bool and float
PyEq(a, b) ==
    IF IsNumber(a) /\ IsNumber(b)
    THEN IF a.type = "float" /\ b.type = "float" THEN a.items = b.items
         ELSE IF a.type = "float" THEN FloatIsInt(a, Num(b))
         ELSE IF b.type = "float" THEN FloatIsInt(b, Num(a))
         ELSE Num(a) = Num(b)
    ELSE a.type = b.type /\ a.items = b.items

\* what a call returns: the value and the end position, or the exception
Ret(value, pos) == [raised |-> "", value |-> value, pos |-> pos]
Raise(exc) == [raised |-> exc, value |-> PyNone, pos |-> 0]

\* the number of characters of `set` at pos and after: \d* or [0-9a-fA-F]*
RECURSIVE Run(_, _, _)
Run(content, pos, set) ==
    IF pos < Len(content) /\ At(content, pos) \in set
    THEN 1 + Run(content, pos + 1, set)
    ELSE 0

\* (?:[eE][+-]?\d+)? at pos: the length matched, 0 when the group is skipped
ExponentLen(content, pos) ==
    IF pos < Len(content) /\ At(content, pos) \in {"e", "E"}
    THEN LET sign == IF pos + 1 < Len(content) /\ At(content, pos + 1) \in {"+", "-"}
                     THEN 1 ELSE 0
             digits == Run(content, pos + 1 + sign, Digits)
         IN IF digits > 0 THEN 1 + sign + digits ELSE 0
    ELSE 0

\* -?(?:0x[0-9a-fA-F]+|\d+\.?\d*(?:[eE][+-]?\d+)?) matched at pos: the length
\* of the match, 0 when there is none
NumberLen(content, pos) ==
    LET minus == IF pos < Len(content) /\ At(content, pos) = "-" THEN 1 ELSE 0
        p == pos + minus
        hex == IF StartsWith(content, p, <<"0", "x">>)
               THEN Run(content, p + 2, HexLetters \cup Digits)
               ELSE 0
        whole == Run(content, p, Digits)
        dot == IF p + whole < Len(content) /\ At(content, p + whole) = "." THEN 1 ELSE 0
        frac == Run(content, p + whole + dot, Digits)
    IN IF hex > 0 THEN minus + 2 + hex
       ELSE IF whole > 0
       THEN minus + whole + dot + frac + ExponentLen(content, p + whole + dot + frac)
       ELSE 0

\* [a-zA-Z_][a-zA-Z0-9_]* matched at pos: the length, 0 when there is none
IdentifierLen(content, pos) ==
    IF pos < Len(content) /\ (isalpha(At(content, pos)) \/ At(content, pos) = "_")
    THEN 1 + Run(content, pos + 1, Letters \cup Digits \cup {"_"})
    ELSE 0

\* the value of a hexadecimal or decimal digit
DigitValue(c) ==
    CASE c \in Digits -> CHOOSE n \in 0..9 :
                            <<"0", "1", "2", "3", "4", "5", "6", "7", "8", "9">>[n + 1] = c
      [] c \in {"a", "A"} -> 10
      [] c \in {"b", "B"} -> 11
      [] c \in {"c", "C"} -> 12
      [] c \in {"d", "D"} -> 13
      [] c \in {"e", "E"} -> 14
      [] c \in {"f", "F"} -> 15

\* the number the digits denote in the base
RECURSIVE DigitsValue(_, _)
DigitsValue(digits, base) ==
    IF digits = <<>> THEN 0
    ELSE DigitsValue(SubSeq(digits, 1, Len(digits) - 1), base) * base
         + DigitValue(digits[Len(digits)])

\* int(token) and int(token, 16) of a token the number pattern matched
int(tkn, base) ==
    LET minus == IF tkn[1] = "-" THEN 1 ELSE 0
        skip == minus + (IF base = 16 THEN 2 ELSE 0)
        value == DigitsValue(SubSeq(tkn, skip + 1, Len(tkn)), base)
    IN PyInt(IF minus = 1 THEN 0 - value ELSE value)

\* float(token) of a token the number pattern matched: a hexadecimal token is
\* no float literal and raises ValueError
float(tkn) ==
    LET minus == IF tkn[1] = "-" THEN 1 ELSE 0
        int_n == Run(tkn, minus, Digits)
        dot == IF minus + int_n < Len(tkn) /\ At(tkn, minus + int_n) = "." THEN 1 ELSE 0
        frac_n == Run(tkn, minus + int_n + dot, Digits)
        e == minus + int_n + dot + frac_n
        mantissa == DigitsValue(Slice(tkn, minus, minus + int_n)
                                \o Slice(tkn, minus + int_n + dot, e), 10)
        exp_neg == e + 1 < Len(tkn) /\ At(tkn, e + 1) = "-"
        exp_sign == IF e + 1 < Len(tkn) /\ At(tkn, e + 1) \in {"+", "-"} THEN 1 ELSE 0
        exp_abs == IF e < Len(tkn)
                   THEN DigitsValue(Slice(tkn, e + 1 + exp_sign, Len(tkn)), 10)
                   ELSE 0
        exp == (IF exp_neg THEN 0 - exp_abs ELSE exp_abs) - frac_n
    IN IF StartsWith(tkn, minus, <<"0", "x">>)
       THEN Raise("ValueError")
       ELSE Ret(PyFloat(IF minus = 1 THEN 0 - mantissa ELSE mantissa, exp), Len(tkn))

\* _parse_value(), the branch of a number token: float(token) if the token
\* holds a '.' or an 'e' in either case, int(token, 16) if it starts with 0x
\* or -0x, else int(token)
NumberValue(tkn) ==
    IF \E i \in 1..Len(tkn) : tkn[i] \in {".", "e", "E"}
    THEN float(tkn)
    ELSE IF StartsWith(tkn, 0, <<"0", "x">>) \/ StartsWith(tkn, 0, <<"-", "0", "x">>)
    THEN Ret(int(tkn, 16), Len(tkn))
    ELSE Ret(int(tkn, 10), Len(tkn))

\* _skip_whitespace(content, pos): past white space, -- comments to the end
\* of the line and --[[ ... ]] comments
RECURSIVE skip_whitespace(_, _)
skip_whitespace(content, pos) ==
    IF pos >= Len(content) THEN pos
    ELSE IF isspace(At(content, pos)) THEN skip_whitespace(content, pos + 1)
    ELSE IF StartsWith(content, pos, <<"-", "-">>)
    THEN LET long == StartsWith(content, pos, <<"-", "-", "[", "[">>)
             end == IF long THEN Find(content, <<"]", "]">>, pos + 4)
                    ELSE Find(content, <<"\n">>, pos)
         IN IF end = -1 THEN Len(content)
            ELSE skip_whitespace(content, IF long THEN end + 2 ELSE end + 1)
    ELSE pos

\* _is_identifier_start(content, pos)
is_identifier_start(content, pos) ==
    /\ pos < Len(content)
    /\ (isalpha(At(content, pos)) \/ At(content, pos) = "_")

\* the loop of _parse_string(): the characters up to the closing quote, a
\* backslash taking the next character with it
RECURSIVE StringLoop(_, _, _, _)
StringLoop(content, pos, quote, chars) ==
    IF pos >= Len(content) THEN Raise("LuaParseError")
    ELSE IF At(content, pos) = quote THEN Ret(PyStr(chars), pos + 1)
    ELSE IF At(content, pos) = "\\"
    THEN IF pos + 1 >= Len(content) THEN Raise("LuaParseError")
         ELSE LET next_char == At(content, pos + 1)
                  char == CASE next_char = "n" -> "\n"
                            [] next_char = "t" -> "\t"
                            [] next_char = "r" -> "\r"
                            [] OTHER -> next_char
              IN StringLoop(content, pos + 2, quote, Append(chars, char))
    ELSE StringLoop(content, pos + 1, quote, Append(chars, At(content, pos)))

\* _parse_string(content, pos, quote)
parse_string(content, pos, quote) ==
    IF At(content, pos) # quote THEN Raise("LuaParseError")
    ELSE StringLoop(content, pos + 1, quote, <<>>)

\* _parse_long_string(content, pos)
parse_long_string(content, pos) ==
    LET end == Find(content, <<"]", "]">>, pos + 2)
    IN IF ~StartsWith(content, pos, <<"[", "[">>) \/ end = -1
       THEN Raise("LuaParseError")
       ELSE Ret(PyStr(Slice(content, pos + 2, end)), end + 2)

\* the token the pattern of _parse_value() matches at pos: a number, else
\* true, false or nil, else an identifier; its length, 0 when nothing matches
TokenLen(content, pos) ==
    IF NumberLen(content, pos) > 0 THEN NumberLen(content, pos)
    ELSE IF StartsWith(content, pos, <<"t", "r", "u", "e">>) THEN 4
    ELSE IF StartsWith(content, pos, <<"f", "a", "l", "s", "e">>) THEN 5
    ELSE IF StartsWith(content, pos, <<"n", "i", "l">>) THEN 3
    ELSE IdentifierLen(content, pos)

\* the keys a dict can hold
Hashable(key) == key.type \notin {"list", "dict"}

\* the index of the pair of `key` in the pairs of a dict, 0 if there is none
KeyIndex(pairs, key) ==
    IF \E i \in 1..Len(pairs) : PyEq(pairs[i][1], key)
    THEN CHOOSE i \in 1..Len(pairs) : PyEq(pairs[i][1], key)
    ELSE 0

\* result[key] = value: the order of insertion is kept, and a key equal to one
\* present replaces its value only
DictSet(pairs, key, value) ==
    IF KeyIndex(pairs, key) = 0
    THEN Append(pairs, <<key, value>>)
    ELSE [pairs EXCEPT ![KeyIndex(pairs, key)] = <<pairs[KeyIndex(pairs, key)][1], value>>]

\* isinstance(k, int): bool is a subclass of int
IsInt(k) == k.type \in {"int", "bool"}

\* the end of _parse_table(): the table is returned as a list if is_array
\* still holds, result is not empty, all keys are ints and the greatest key is
\* the number of keys; otherwise as the dict
TableValue(pairs, is_array) ==
    IF /\ is_array
       /\ pairs # <<>>
       /\ \A i \in 1..Len(pairs) : IsInt(pairs[i][1])
       /\ \E i \in 1..Len(pairs) :
            /\ Num(pairs[i][1]) = Len(pairs)
            /\ \A j \in 1..Len(pairs) : Num(pairs[j][1]) <= Num(pairs[i][1])
    THEN PyList([i \in 1..Len(pairs) |-> pairs[KeyIndex(pairs, PyInt(i))][2]])
    ELSE PyDict(pairs)

RECURSIVE parse_table(_, _)
RECURSIVE parse_value(_, _)
RECURSIVE TableLoop(_, _, _, _, _)

\* F of the value v, which is computed once
Bind(v, F(_)) == CHOOSE r \in {F(x) : x \in {v}} : TRUE

\* what one pass of the loop of _parse_table() gives: the key, the value, the
\* position after the value, array_index and is_array, or the exception
Entry(key, v, index, array) ==
    [raised |-> v.raised, key |-> key, value |-> v.value, pos |-> v.pos,
     array_index |-> index, is_array |-> array]

\* a value without a key: key = array_index
BareEntry(content, pos, array_index, is_array) ==
    Bind(parse_value(content, pos),
         LAMBDA v : Entry(PyInt(array_index), v, array_index + 1, is_array))

\* [key] = value
BracketEntry(content, pos, array_index, is_array) ==
    Bind(parse_value(content, skip_whitespace(content, pos + 1)), LAMBDA k :
        IF k.raised # "" THEN Entry(PyNone, k, array_index, is_array)
        ELSE Bind(skip_whitespace(content, k.pos), LAMBDA p1 :
            IF p1 >= Len(content) \/ At(content, p1) # "]"
            THEN Entry(PyNone, Raise("LuaParseError"), array_index, is_array)
            ELSE Bind(skip_whitespace(content, p1 + 1), LAMBDA p2 :
                IF p2 >= Len(content) \/ At(content, p2) # "="
                THEN Entry(PyNone, Raise("LuaParseError"), array_index, is_array)
                ELSE Bind(parse_value(content, skip_whitespace(content, p2 + 1)), LAMBDA v :
                    IF PyEq(k.value, PyInt(array_index))
                    THEN Entry(k.value, v, array_index + 1, is_array)
                    ELSE Entry(k.value, v, array_index, FALSE)))))

\* one pass of the loop of _parse_table() from the key or value at pos on
TableEntry(content, pos, array_index, is_array) ==
    IF At(content, pos) = "["
    THEN BracketEntry(content, pos, array_index, is_array)
    ELSE IF is_identifier_start(content, pos)
    THEN LET n == IdentifierLen(content, pos)
             eq == pos + n + Run(content, pos + n, {" ", "\n", "\t", "\r"})
         IN IF eq < Len(content) /\ At(content, eq) = "="
            THEN Bind(parse_value(content, skip_whitespace(content, eq + 1)), LAMBDA v :
                    Entry(PyStr(Slice(content, pos, pos + n)), v, array_index, FALSE))
            ELSE BareEntry(content, pos, array_index, is_array)
    ELSE BareEntry(content, pos, array_index, is_array)

\* the loop of _parse_table(), and what follows it
TableLoop(content, pos0, pairs, array_index, is_array) ==
    Bind(skip_whitespace(content, pos0), LAMBDA pos :
        IF pos >= Len(content) THEN Raise("LuaParseError")
        ELSE IF At(content, pos) = "}" THEN Ret(TableValue(pairs, is_array), pos + 1)
        ELSE Bind(TableEntry(content, pos, array_index, is_array), LAMBDA e :
            IF e.raised # "" THEN Raise(e.raised)
            ELSE IF ~Hashable(e.key) THEN Raise("TypeError")
            ELSE Bind(skip_whitespace(content, e.pos), LAMBDA p1 :
                Bind(DictSet(pairs, e.key, e.value), LAMBDA res :
                    TableLoop(content,
                              IF p1 < Len(content) /\ At(content, p1) \in {",", ";"}
                              THEN p1 + 1 ELSE p1,
                              res, e.array_index, e.is_array)))))

\* _parse_table(content, start)
parse_table(content, start) ==
    IF At(content, start) # "{" THEN Raise("LuaParseError")
    ELSE TableLoop(content, start + 1, <<>>, 1, TRUE)

\* _parse_value(content, pos)
parse_value(content, pos0) ==
    Bind(skip_whitespace(content, pos0), LAMBDA pos :
        IF pos >= Len(content) THEN Raise("LuaParseError")
        ELSE IF At(content, pos) = "{" THEN parse_table(content, pos)
        ELSE IF At(content, pos) \in {"\"", "'"}
        THEN parse_string(content, pos, At(content, pos))
        ELSE IF StartsWith(content, pos, <<"[", "[">>) THEN parse_long_string(content, pos)
        ELSE Bind(Slice(content, pos, pos + TokenLen(content, pos)), LAMBDA tkn :
            IF tkn = <<>> THEN Raise("LuaParseError")
            ELSE IF tkn = <<"t", "r", "u", "e">> THEN Ret(PyBool(TRUE), pos + Len(tkn))
            ELSE IF tkn = <<"f", "a", "l", "s", "e">> THEN Ret(PyBool(FALSE), pos + Len(tkn))
            ELSE IF tkn = <<"n", "i", "l">> THEN Ret(PyNone, pos + Len(tkn))
            ELSE IF NumberLen(tkn, 0) > 0
            THEN Bind(NumberValue(tkn), LAMBDA v :
                    IF v.raised # "" THEN v ELSE Ret(v.value, pos + Len(tkn)))
            ELSE Ret(PyStr(tkn), pos + Len(tkn))))

\* ([a-zA-Z_][a-zA-Z0-9_]*)\s*=\s*(\{) matched at position s: the name and
\* the position of the brace, or no match
AssignmentAt(content, s) ==
    LET n == IdentifierLen(content, s)
        eq == s + n + Run(content, s + n, {" ", "\n", "\t", "\r"})
        brace == eq + 1 + Run(content, eq + 1, {" ", "\n", "\t", "\r"})
    IN IF /\ n > 0
          /\ eq < Len(content) /\ At(content, eq) = "="
          /\ brace < Len(content) /\ At(content, brace) = "{"
       THEN [found |-> TRUE, name |-> Slice(content, s, s + n), brace |-> brace]
       ELSE [found |-> FALSE, name |-> <<>>, brace |-> 0]

\* assignment_pattern.search(lua_content, pos): the leftmost match
RECURSIVE AssignmentSearch(_, _)
AssignmentSearch(content, pos) ==
    IF pos >= Len(content) THEN AssignmentAt(content, Len(content))
    ELSE Bind(AssignmentAt(content, pos), LAMBDA m :
            IF m.found THEN m ELSE AssignmentSearch(content, pos + 1))

\* the loop of parse(): each `name = {` found is parsed as a table; after a
\* LuaParseError the search goes on from the end of the match, which is just
\* past the brace; any other exception leaves parse()
RECURSIVE ParseLoop(_, _, _)
ParseLoop(content, pos, pairs) ==
    IF pos >= Len(content) THEN Ret(PyDict(pairs), pos)
    ELSE Bind(AssignmentSearch(content, pos), LAMBDA match :
        IF ~match.found THEN Ret(PyDict(pairs), pos)
        ELSE Bind(parse_table(content, match.brace), LAMBDA table :
            IF table.raised = ""
            THEN Bind(DictSet(pairs, PyStr(match.name), table.value), LAMBDA res :
                    ParseLoop(content, table.pos, res))
            ELSE IF table.raised = "LuaParseError"
            THEN ParseLoop(content, match.brace + 1, pairs)
            ELSE Raise(table.raised)))

\* LuaTableParser.parse(lua_content)
parse(lua_content) == ParseLoop(lua_content, 0, <<>>)

\* ------------------------------------------------------------- specifications
InitClock ==
    /\ now = 0
    /\ ticks = 0

InitTasks ==
    /\ calls = 0
    /\ pc = [t \in Tasks |-> "idle"]
    /\ op = [t \in Tasks |-> "none"]
    /\ wake = [t \in Tasks |-> 0]
    /\ result = [t \in Tasks |-> None]

\* a RateLimiter whose windows hold the grant times `earlier`
RateLimiterAfter(earlier) ==
    /\ minute_window = earlier
    /\ hour_window = earlier
    /\ minute_ago = [t \in Tasks |-> 0]
    /\ hour_ago = [t \in Tasks |-> 0]
    /\ rl_lock = NoTask
    /\ grants = earlier

InitRateLimiter ==
    RateLimiterAfter(<<>>)

InitRequests ==
    /\ attempt = [t \in Tasks |-> 0]
    /\ headers = [t \in Tasks |-> None]
    /\ last_exception = [t \in Tasks |-> None]
    /\ http_calls = [t \in Tasks |-> 0]
    /\ call_at = [t \in Tasks |-> 0]
    /\ n401 = [t \in Tasks |-> 0]
    /\ last429 = [t \in Tasks |-> None]
    /\ got4xx = [t \in Tasks |-> None]

\* a fresh TokenManager over a store that holds the token st of an earlier run
InitTokenManager(st) ==
    /\ token = None
    /\ stored = st
    /\ refresh_lock = NoTask
    /\ tok = [t \in Tasks |-> None]
    /\ issued = 0
    /\ inflight = {}
    /\ sent = [t \in Tasks |-> 0]
    /\ covered = [t \in Tasks |-> None]
    /\ rejected = FALSE
    /\ late = [t \in Tasks |-> FALSE]
    /\ gvt_out = [t \in Tasks |-> None]

\* an empty sync queue
InitQueue ==
    /\ queue = [i \in Ids |-> None]
    /\ next_id = 0
    /\ up_items = [t \in Tasks |-> <<>>]
    /\ up_groups = [t \in Tasks |-> <<>>]
    /\ up_results = [t \in Tasks |-> NoResults]
    /\ reported = [i \in Ids |-> None]
    /\ transitions = {}
    /\ up_raised = [t \in Tasks |-> {}]

\* SyncClient.__init__: no sync task
InitBackground ==
    /\ running = FALSE
    /\ sync_task = NoTask
    /\ loop_tasks = [l \in LoopTasks |-> "none"]
    /\ awaited = [t \in Tasks |-> NoTask]
    /\ loop_pc = "none"
    /\ loop_wake = 0
    /\ loop_now = 0
    /\ last_upload = 0
    /\ last_download = 0
    /\ last_full_sync = 0
    /\ loop_iter = 0
    /\ loop_errors = 0
    /\ err_iter = 0

\* no function call under study, nothing enqueued
InitNoCall ==
    /\ fn_in = None
    /\ fn_out = None
    /\ enq_last = [i \in Ids |-> None]
    /\ restarts = 0
    /\ InitWatcher(None)
    /\ cache = [k \in CacheKeys |-> None]
    /\ cache_last = [k \in CacheKeys |-> None]
    /\ metadata = None
    /\ cached = [t \in Tasks |-> None]
    /\ InitBackground

Init ==
    /\ InitClock
    /\ InitTasks
    /\ InitRateLimiter
    /\ InitTokenManager(None)
    /\ InitRequests
    /\ InitQueue
    /\ InitNoCall

\* concurrent callers of RateLimiter.acquire()
\* mutant: every entry of the minute window is counted
remaining_minute_unfiltered ==
    IF rpm_limit - Len(minute_window) > 0 THEN rpm_limit - Len(minute_window) ELSE 0

\* RateLimiter.remaining_minute: the entries of the minute window not older
\* than a minute are counted
remaining_minute ==
    LET count == Cardinality({i \in 1..Len(minute_window) :
                                minute_window[i] >= now - MINUTE * Sec})
    IN IF rpm_limit - count > 0 THEN rpm_limit - count ELSE 0

\* RateLimiter.remaining_hour
remaining_hour ==
    LET count == Cardinality({i \in 1..Len(hour_window) :
                                hour_window[i] >= now - HOUR * Sec})
    IN IF rph_limit - count > 0 THEN rph_limit - count ELSE 0

\* both properties are read, from any thread at any time
ReadRemaining ==
    /\ fn_in' = [call |-> "remaining"]
    /\ fn_out' = [minute |-> remaining_minute, hour |-> remaining_hour]
    /\ UNCHANGED <<clockVars, taskVars, rlVars, tmVars, reqVars, upVars, storeVars, bgVars>>

NextRL ==
    \/ Tick
    \/ TickNeeded
    \/ \E t \in Tasks : acquire(t)
    \/ \E t \in Tasks : AcquireEnter(t)
    \/ \E t \in Tasks : AcquireMinuteCheck(t)
    \/ \E t \in Tasks : AcquireMinuteWake(t)
    \/ \E t \in Tasks : AcquireMinuteAfter(t)
    \/ \E t \in Tasks : AcquireHourCheck(t)
    \/ \E t \in Tasks : AcquireHourWake(t)
    \/ \E t \in Tasks : AcquireHourAfter(t)
    \/ \E t \in Tasks : Finish(t)

SpecRL == Init /\ [][NextRL]_vars

\* the tokens an earlier run may have left in the store
InitialStored ==
    {None,
     save_token([access |-> 0, expires_at |-> token_refresh_buffer * Sec]),
     save_token([access |-> 0, expires_at |-> HOUR * Sec])}

InitTok ==
    /\ InitClock
    /\ InitTasks
    /\ InitRateLimiter
    /\ \E st \in InitialStored : InitTokenManager(st)
    /\ InitRequests
    /\ InitQueue
    /\ InitNoCall

\* concurrent callers of TokenManager.get_valid_token(), and logins
NextTok ==
    \/ Tick
    \/ login
    \/ \E t \in Tasks : get_valid_token(t)
    \/ \E t \in Tasks : GvtEntry(t)
    \/ \E t \in Tasks : GvtLocked(t)
    \/ \E t \in Tasks : GvtRefreshResponse(t)
    \/ \E t \in Tasks : Finish(t)

SpecTok == InitTok /\ [][NextTok]_vars

\* the caller of the one _request() of a behaviour, and a concurrent caller
\* of get_valid_token()
Caller == 1
Other == 2

\* logins, the get_valid_token() calls of one task with their refreshes, the
\* logouts of another task and restarts of the agent, in any interleaving
NextAuth ==
    \/ Tick
    \/ login
    \/ get_valid_token(Caller)
    \/ GvtEntry(Caller)
    \/ GvtLocked(Caller)
    \/ GvtRefreshResponse(Caller)
    \/ logout(Other)
    \/ LogoutResponse(Other)
    \/ \E t \in {Caller, Other} : Finish(t)
    \/ Restart

SpecAuth == InitTok /\ [][NextAuth]_vars

\* the steps that resume a started _request() of task t, with the
\* random.random() of its backoffs drawn from `jitters`
RequestSteps(t, jitters) ==
    \/ GvtEntry(t)
    \/ GvtLocked(t)
    \/ GvtRefreshResponse(t)
    \/ AcquireEnter(t)
    \/ AcquireMinuteCheck(t)
    \/ AcquireMinuteWake(t)
    \/ AcquireMinuteAfter(t)
    \/ AcquireHourCheck(t)
    \/ AcquireHourWake(t)
    \/ AcquireHourAfter(t)
    \/ ReqHttpSend(t)
    \/ ReqHttpResponseFrom(t, HttpAnswers, jitters)
    \/ ReqWake(t)
    \/ ReqRefreshResponse(t)

\* the steps that resume the started get_valid_token() of the other task
OtherSteps ==
    \/ GvtEntry(Other)
    \/ GvtLocked(Other)
    \/ GvtRefreshResponse(Other)

\* one _request() call over the rate limiter and the token manager, next to
\* one get_valid_token() call of another task
NextReq ==
    \/ TickNeeded
    \/ request(Caller)
    \/ RequestSteps(Caller, JitterDraws)
    \/ get_valid_token(Other)
    \/ OtherSteps

\* the client is new, or it has just made one request
InitReq ==
    /\ InitClock
    /\ InitTasks
    /\ \E earlier \in {<<>>, <<0>>} : RateLimiterAfter(earlier)
    /\ \E st \in InitialStored : InitTokenManager(st)
    /\ InitRequests
    /\ InitQueue
    /\ InitNoCall

SpecReq == InitReq /\ [][NextReq]_vars

\* one _request() whose backoffs draw no jitter
NextReqFair ==
    \/ TickNeeded
    \/ request(Caller)
    \/ RequestSteps(Caller, {0})
    \/ get_valid_token(Other)
    \/ OtherSteps

\* every started coroutine is resumed, every request sent is answered or times
\* out, and the clock goes on
FairReq ==
    /\ WF_vars(TickNeeded)
    /\ WF_vars(RequestSteps(Caller, {0}))
    /\ WF_vars(OtherSteps)

SpecReqFair == InitReq /\ [][NextReqFair]_vars /\ FairReq

\* the answers of the server to batch requests in the specification of uploads
UploadAnswers ==
    {a \in HttpAnswers : a.status \in {200, 404, 500}}

\* a batch request is answered
UploadHttpResponse(t) ==
    ReqHttpResponseFrom(t, UploadAnswers, {0})

\* items, no more than one batch takes, are enqueued while one task flushes
\* the upload queue
NextUp ==
    \/ TickNeeded
    \/ /\ next_id < max_batch_size
       /\ \E ty \in ItemTypes : upload_item(ty)
    \/ flush_upload_queue(Caller)
    \/ GvtEntry(Caller)
    \/ GvtLocked(Caller)
    \/ GvtRefreshResponse(Caller)
    \/ AcquireEnter(Caller)
    \/ AcquireMinuteCheck(Caller)
    \/ AcquireMinuteWake(Caller)
    \/ AcquireMinuteAfter(Caller)
    \/ AcquireHourCheck(Caller)
    \/ AcquireHourWake(Caller)
    \/ AcquireHourAfter(Caller)
    \/ ReqHttpSend(Caller)
    \/ UploadHttpResponse(Caller)
    \/ ReqWake(Caller)
    \/ UploadAfterRequest(Caller)

SpecUp == InitTok /\ [][NextUp]_vars

\* the answers of the server to batch requests in the specification of
\* restarts: none that _request() retries
CrashAnswers ==
    {a \in HttpAnswers : a.status \in {200, 404}}

CrashHttpResponse(t) ==
    ReqHttpResponseFrom(t, CrashAnswers, {0})

\* the user has logged in; the client is new, or it has just made two requests
InitCrash ==
    /\ InitClock
    /\ InitTasks
    /\ \E earlier \in {<<>>, <<0, 0>>} : RateLimiterAfter(earlier)
    /\ \E st \in InitialStored \ {None} : InitTokenManager(st)
    /\ InitRequests
    /\ InitQueue
    /\ InitNoCall

\* combat runs are enqueued and one task flushes the upload queue once in
\* each life of the process, while the agent may be killed and started again
\* at any point; the one request of a flush finds at most two grants in the
\* hour window, fewer than rph_limit, so acquire() never waits for the hour
NextCrash ==
    \/ TickNeeded
    \/ upload_item("combat_run")
    \/ flush_upload_queue(Caller)
    \/ GvtEntry(Caller)
    \/ GvtLocked(Caller)
    \/ GvtRefreshResponse(Caller)
    \/ AcquireEnter(Caller)
    \/ AcquireMinuteCheck(Caller)
    \/ AcquireMinuteWake(Caller)
    \/ AcquireMinuteAfter(Caller)
    \/ AcquireHourCheck(Caller)
    \/ ReqHttpSend(Caller)
    \/ CrashHttpResponse(Caller)
    \/ UploadAfterRequest(Caller)
    \/ Restart
    \/ RestartWhileMarkingFailed(Caller)

SpecCrash == InitCrash /\ [][NextCrash]_vars

\* all values of hash(time.time()) % 100
AllJitterDraws == 0..99

\* an attempt number and the jitter draws of two _calculate_backoff() calls
InitBackoff ==
    /\ InitClock
    /\ InitTasks
    /\ InitRateLimiter
    /\ InitTokenManager(None)
    /\ InitRequests
    /\ InitQueue
    /\ fn_in \in [attempt : 0..MaxAttempt, draws : AllJitterDraws \X AllJitterDraws]
    /\ fn_out = None
    /\ enq_last = [i \in Ids |-> None]
    /\ restarts = 0
    /\ InitWatcher(None)
    /\ cache = [k \in CacheKeys |-> None]
    /\ cache_last = [k \in CacheKeys |-> None]
    /\ metadata = None
    /\ cached = [t \in Tasks |-> None]
    /\ InitBackground

\* _calculate_backoff(k) and _calculate_backoff(k + 1) are called
CallBackoff ==
    /\ fn_out = None
    /\ fn_out' = [at |-> calculate_backoff(fn_in.attempt, fn_in.draws[1]),
                  next |-> calculate_backoff(fn_in.attempt + 1, fn_in.draws[2])]
    /\ UNCHANGED <<clockVars, taskVars, rlVars, tmVars, reqVars, upVars, fn_in, storeVars,
                   bgVars>>

SpecBackoff == InitBackoff /\ [][CallBackoff]_vars

\* the creation times of the items enqueued: on a full second and off it
CreatedTimes == {0, 1, Sec}

\* the items handed to LocalCache.enqueue()
QueueItems ==
    [id : 1..max_batch_size, item_type : ItemTypes, direction : {"upload", "download"},
     status : {"pending", "failed"}, created_at : CreatedTimes, updated_at : {Sec},
     data : {ItemData("combat_run")},
     checksum : {calculate_checksum(ItemData("combat_run"))},
     attempts : {0}, last_error : {None}]

\* dequeue_batch(direction, status, limit) is called and its items are grouped
\* by item type as _process_upload_batch() groups them
CallDequeue(direction, status, limit) ==
    /\ fn_out = None
    /\ fn_in' = [direction |-> direction, status |-> status, limit |-> limit,
                 table |-> queue]
    /\ \E b \in DequeueBatches(direction, status, limit) :
          fn_out' = [batch |-> b,
                     by_type |-> [ty \in ItemTypes |-> TypeItems(b, ty)]]
    /\ UNCHANGED <<clockVars, taskVars, rlVars, tmVars, reqVars, upVars, storeVars, bgVars>>

\* enqueue() calls, then one dequeue_batch() call
NextQueue ==
    \/ /\ fn_out = None
       /\ \E item \in QueueItems : enqueue(item)
    \/ \E direction \in {"upload", "download"}, status \in {"pending", "failed"},
          limit \in 1..max_batch_size : CallDequeue(direction, status, limit)

SpecQueue == Init /\ [][NextQueue]_vars

\* the status and error arguments of update_item_status()
SyncStatuses == {"pending", "uploading", "uploaded", "failed", "conflict"}
StatusErrors == {None, [text |-> "Unknown error"]}

\* update_item_status(id, status, error) is called
CallUpdateItemStatus(id, status, error) ==
    /\ fn_out = None
    /\ fn_in' = [id |-> id, status |-> status, error |-> error, at |-> now,
                 table |-> queue]
    /\ queue' = update_item_status(queue, id, status, error)
    /\ fn_out' = [table |-> queue']
    /\ UNCHANGED <<clockVars, taskVars, rlVars, tmVars, reqVars, storeVars, bgVars>>
    /\ UNCHANGED <<next_id, up_items, up_groups, up_results, reported, transitions,
                   up_raised>>

\* a pending batch is dequeued and the answer to its upload is applied: the
\* per-item results of the response, or the failure of the whole request
CallProcessBatch ==
    /\ \E b \in DequeueBatches("upload", "pending", max_batch_size) :
        /\ b # <<>>
        /\ \/ \E res \in [{b[x] : x \in DOMAIN b} -> ItemReports] :
                 queue' = ApplyResults(queue, b, res)
           \/ queue' = MarkAllFailed(queue, b, Raised("SyncError", "API error"))
    /\ UNCHANGED <<clockVars, taskVars, rlVars, tmVars, reqVars, otherVars>>
    /\ UNCHANGED <<next_id, up_items, up_groups, up_results, reported, transitions,
                   up_raised>>

\* a combat run and a build snapshot have just been enqueued
InitStatus ==
    /\ InitClock
    /\ InitTasks
    /\ InitRateLimiter
    /\ InitTokenManager(None)
    /\ InitRequests
    /\ \E n \in {2} :
        LET item(i) == NewSyncItem(i, IF i = 1 THEN "combat_run" ELSE "build_snapshot",
                                   "upload")
        IN /\ queue = [i \in Ids |-> IF i <= n THEN RowOf(item(i)) ELSE None]
           /\ next_id = n
           /\ enq_last = [i \in Ids |-> IF i <= n THEN [item |-> item(i), replaced |-> FALSE]
                                         ELSE None]
    /\ up_items = [t \in Tasks |-> <<>>]
    /\ up_groups = [t \in Tasks |-> <<>>]
    /\ up_results = [t \in Tasks |-> NoResults]
    /\ reported = [i \in Ids |-> None]
    /\ transitions = {}
    /\ up_raised = [t \in Tasks |-> {}]
    /\ fn_in = None
    /\ fn_out = None
    /\ restarts = 0
    /\ InitWatcher(None)
    /\ cache = [k \in CacheKeys |-> None]
    /\ cache_last = [k \in CacheKeys |-> None]
    /\ metadata = None
    /\ cached = [t \in Tasks |-> None]
    /\ InitBackground

\* batches of the queue are uploaded and one row is updated, as the clock
\* advances
NextStatus ==
    \/ Tick
    \/ CallProcessBatch
    \/ \E id \in Ids, status \in SyncStatuses, error \in StatusErrors :
          CallUpdateItemStatus(id, status, error)

SpecStatus == InitStatus /\ [][NextStatus]_vars

\* cache_data() and get_cached() calls as the clock advances
NextCache ==
    \/ Tick
    \/ \E key \in CacheKeys, data \in Payloads, ttl_seconds \in Ttls :
          cache_data(key, data, ttl_seconds)
    \/ \E key \in CacheKeys : get_cached(key)

SpecCache == Init /\ [][NextCache]_vars

\* the user has logged in; nothing is cached or queued
InitBackgroundSync ==
    /\ InitClock
    /\ InitTasks
    /\ InitRateLimiter
    /\ \E st \in InitialStored \ {None} : InitTokenManager(st)
    /\ InitRequests
    /\ InitQueue
    /\ InitNoCall

\* download_recommendations() with no run_id and no since is called: the
\* cache is read and, unless it gives a non-empty value, the request begins
download_recommendations(t) ==
    /\ pc[t] = "idle"
    /\ calls < MaxCalls
    /\ calls' = calls + 1
    /\ DownloadStart(t, "recommendations:all:all")
    /\ fn_in' = [key |-> "recommendations:all:all", at |-> now,
                 stored |-> cache_last["recommendations:all:all"], request |-> None]
    /\ fn_out' = None
    /\ UNCHANGED <<clockVars, wake, rlVars, tmVars, reqVars, upVars, enq_last, restarts,
                   watchVars, bgVars, metadata>>

\* download_recommendations() returns: the cached value it found, the
\* recommendations of the answer, which it has cached, or after a SyncError
\* `cached or []`; any other exception leaves it
DownloadReturn(t) ==
    /\ pc[t] = "done"
    /\ op[t] = "download"
    /\ DownloadEnd(t, fn_in.key)
    /\ fn_in' = [fn_in EXCEPT !.request = result[t]]
    /\ fn_out' = IF result[t] = Ok([status |-> 0]) THEN Ok(cached[t])
                 ELSE IF result[t].kind = "ok" THEN Ok(json_loads(cache'[fn_in.key].data))
                 ELSE IF Escapes(result[t]) THEN result[t]
                 ELSE Ok(CachedOrEmpty(cached[t]))
    /\ ReturnToIdle(t)
    /\ UNCHANGED <<clockVars, calls, wake, rlVars, upVars, enq_last, restarts, watchVars,
                   bgVars, metadata>>
    /\ UNCHANGED <<token, stored, refresh_lock, issued, inflight, rejected>>

\* the answers to GET /recommendations: the recommendations, or 404
DownloadAnswers == {a \in HttpAnswers : a.status \in {200, 404}}

\* a caller downloads the recommendations again and again as the clock
\* advances and cached rows expire
NextDownload ==
    \/ Tick
    \/ TickNeeded
    \/ download_recommendations(Caller)
    \/ DownloadReturn(Caller)
    \/ GvtEntry(Caller)
    \/ GvtLocked(Caller)
    \/ GvtRefreshResponse(Caller)
    \/ AcquireEnter(Caller)
    \/ AcquireMinuteCheck(Caller)
    \/ AcquireMinuteWake(Caller)
    \/ AcquireMinuteAfter(Caller)
    \/ AcquireHourCheck(Caller)
    \/ AcquireHourWake(Caller)
    \/ AcquireHourAfter(Caller)
    \/ ReqHttpSend(Caller)
    \/ ReqHttpResponseFrom(Caller, DownloadAnswers, {0})

SpecDownload == InitBackgroundSync /\ [][NextDownload]_vars

\* the answers to the batch requests of concurrent flushes: the results, or 404
FlushAnswers == {a \in HttpAnswers : a.status \in {200, 404}}

\* the steps of a started flush_upload_queue() of task t; the token of
\* InitFlush is outside the refresh buffer at every get_valid_token() of the
\* two flushes, so the refresh steps are never taken
FlushSteps(t) ==
    \/ GvtEntry(t)
    \/ AcquireEnter(t)
    \/ AcquireMinuteCheck(t)
    \/ AcquireMinuteWake(t)
    \/ AcquireMinuteAfter(t)
    \/ AcquireHourCheck(t)
    \/ AcquireHourWake(t)
    \/ AcquireHourAfter(t)
    \/ ReqHttpSend(t)
    \/ ReqHttpResponseFrom(t, FlushAnswers, {0})
    \/ UploadAfterRequest(t)

\* the user has logged in, with a token good for an hour, and a combat run
\* and a build snapshot have just been enqueued
InitFlush ==
    /\ InitClock
    /\ InitTasks
    /\ InitRateLimiter
    /\ InitTokenManager(save_token([access |-> 0, expires_at |-> HOUR * Sec]))
    /\ InitRequests
    /\ \E n \in {2} :
        LET item(i) == NewSyncItem(i, IF i = 1 THEN "combat_run" ELSE "build_snapshot",
                                   "upload")
        IN /\ queue = [i \in Ids |-> IF i <= n THEN RowOf(item(i)) ELSE None]
           /\ next_id = n
           /\ enq_last = [i \in Ids |-> IF i <= n THEN [item |-> item(i), replaced |-> FALSE]
                                         ELSE None]
    /\ up_items = [t \in Tasks |-> <<>>]
    /\ up_groups = [t \in Tasks |-> <<>>]
    /\ up_results = [t \in Tasks |-> NoResults]
    /\ reported = [i \in Ids |-> None]
    /\ transitions = {}
    /\ up_raised = [t \in Tasks |-> {}]
    /\ fn_in = None
    /\ fn_out = None
    /\ restarts = 0
    /\ InitWatcher(None)
    /\ cache = [k \in CacheKeys |-> None]
    /\ cache_last = [k \in CacheKeys |-> None]
    /\ metadata = None
    /\ cached = [t \in Tasks |-> None]
    /\ InitBackground

\* two tasks flush the upload queue, as many times as there are tasks: the
\* upload of the background loop, or its sync_all(), and the
\* flush_upload_queue() of a foreground caller
NextFlush ==
    \/ TickNeeded
    \/ /\ calls < NumTasks
       /\ \E t \in {Caller, Other} : flush_upload_queue(t)
    \/ \E t \in {Caller, Other} : FlushSteps(t)

SpecFlush == InitFlush /\ [][NextFlush]_vars

\* ---------------------------------- SyncClient: the life of the loop tasks
\* a loop task that is not done: created and yet to run, suspended at an
\* await of the loop, or cancelled and yet to be resumed with CancelledError
Alive(l) == loop_tasks[l] \in {"created", "suspended", "cancelling"}
AliveLoops == {l \in LoopTasks : Alive(l)}

\* what the steps of the callers and of the loop tasks leave alone
LifeOnly ==
    UNCHANGED <<clockVars, wake, result, rlVars, tmVars, reqVars, upVars, fnVars, storeVars,
                loop_pc, loop_wake, loop_now, last_upload, last_download, last_full_sync,
                loop_iter, loop_errors, err_iter>>

\* Task.cancel(): nothing for a task that is done; otherwise CancelledError
\* is thrown into the task the next time the event loop runs it
Cancel(l) ==
    IF Alive(l) THEN [loop_tasks EXCEPT ![l] = "cancelling"] ELSE loop_tasks

\* start_background_sync(), which has no await: nothing if _running;
\* otherwise _running is set and asyncio.create_task() schedules a new loop
\* task, which becomes _sync_task
StartCall ==
    /\ calls < MaxCalls
    /\ calls' = calls + 1
    /\ IF running
       THEN UNCHANGED <<running, sync_task, loop_tasks>>
       ELSE \E l \in LoopTasks :
               /\ loop_tasks[l] = "none"
               /\ \A k \in LoopTasks : k < l => loop_tasks[k] # "none"
               /\ running' = TRUE
               /\ sync_task' = l
               /\ loop_tasks' = [loop_tasks EXCEPT ![l] = "created"]
    /\ UNCHANGED <<pc, op, awaited>>
    /\ LifeOnly

\* stop_background_sync() and close() up to `await self._sync_task`:
\* _running is cleared and the task in _sync_task, if there is one, is
\* cancelled and awaited; the await of a task that is done does not suspend,
\* and the call returns (close() after closing the HTTP clients and the store)
StopCall(t, name) ==
    /\ pc[t] = "idle"
    /\ calls < MaxCalls
    /\ calls' = calls + 1
    /\ running' = FALSE
    /\ IF sync_task = NoTask
       THEN UNCHANGED <<loop_tasks, pc, op, awaited>>
       ELSE /\ loop_tasks' = Cancel(sync_task)
            /\ IF Alive(sync_task)
               THEN /\ pc' = [pc EXCEPT ![t] = "await_task"]
                    /\ op' = [op EXCEPT ![t] = name]
                    /\ awaited' = [awaited EXCEPT ![t] = sync_task]
               ELSE UNCHANGED <<pc, op, awaited>>
    /\ UNCHANGED sync_task
    /\ LifeOnly

stop_background_sync_call(t) ==
    StopCall(t, "stop_background_sync")

close_call(t) ==
    StopCall(t, "close")

\* the awaited task is done: `await self._sync_task` ends, with the task's
\* result or with the CancelledError that the call catches, and the call
\* returns
AwaitTaskReturn(t) ==
    /\ pc[t] = "await_task"
    /\ loop_tasks[awaited[t]] = "done"
    /\ pc' = [pc EXCEPT ![t] = "idle"]
    /\ op' = [op EXCEPT ![t] = "none"]
    /\ awaited' = [awaited EXCEPT ![t] = NoTask]
    /\ UNCHANGED <<calls, running, sync_task, loop_tasks>>
    /\ LifeOnly

\* the event loop runs a loop task that is not cancelled: `while
\* self._running` is evaluated; the task goes through a cycle to its next
\* await, or the loop and the task end
LoopTaskRun(l) ==
    /\ loop_tasks[l] \in {"created", "suspended"}
    /\ loop_tasks' = [loop_tasks EXCEPT ![l] = IF running THEN "suspended" ELSE "done"]
    /\ UNCHANGED <<calls, pc, op, awaited, running, sync_task>>
    /\ LifeOnly

\* the event loop runs a cancelled loop task: CancelledError is raised at its
\* await, `except asyncio.CancelledError: break` ends the loop (from the
\* sleep of the handler the error leaves the coroutine), and the task is done
LoopTaskCancelled(l) ==
    /\ loop_tasks[l] = "cancelling"
    /\ loop_tasks' = [loop_tasks EXCEPT ![l] = "done"]
    /\ UNCHANGED <<calls, pc, op, awaited, running, sync_task>>
    /\ LifeOnly

\* start_background_sync(), stop_background_sync() and close() are called by
\* two tasks in any order, also while a call of the other awaits the loop task
NextLifecycle ==
    \/ StartCall
    \/ \E t \in Tasks : stop_background_sync_call(t)
    \/ \E t \in Tasks : close_call(t)
    \/ \E t \in Tasks : AwaitTaskReturn(t)
    \/ \E l \in LoopTasks : LoopTaskRun(l)
    \/ \E l \in LoopTasks : LoopTaskCancelled(l)

SpecLifecycle == InitBackgroundSync /\ [][NextLifecycle]_vars

\* the answers of the server to the requests of the sync task: a request is
\* served at once, or, when it is the request of an upload, of the download
\* cycle or of the flush of sync_all(), the server fails it and every retry
\* of it (sync_all() swallows the failures of its two downloads)
LoopAnswers(t) ==
    {a \in HttpAnswers :
        \/ a.status = 200 /\ attempt[t] = 0
        \/ a.status = 500 /\ loop_pc \in {"upload", "download", "full_upload"}}

LoopHttpResponse(t) ==
    ReqHttpResponseFrom(t, LoopAnswers(t), {0})

\* one life of the background loop with the calls it makes: a combat run may
\* be enqueued, the loop is started, and stopped or closed at any await
NextLoop ==
    \/ TickNeeded
    \/ /\ loop_pc = "none"
       /\ start_background_sync
    \/ /\ running
       /\ stop_background_sync
    \/ /\ running
       /\ close
    \/ /\ next_id < 1
       /\ loop_pc = "none"
       /\ upload_item("combat_run")
    \/ LoopIterate
    \/ LoopCheckUpload
    \/ LoopAfterUpload
    \/ LoopCheckDownload
    \/ LoopAfterDownload
    \/ LoopCheckFull
    \/ LoopAfterFullUpload
    \/ LoopFullRecommendations
    \/ LoopAfterFullRecommendations
    \/ LoopFullFeatures
    \/ LoopAfterFullFeatures
    \/ LoopWake
    \/ GvtEntry(SyncTask)
    \/ GvtLocked(SyncTask)
    \/ GvtRefreshResponse(SyncTask)
    \/ AcquireEnter(SyncTask)
    \/ AcquireMinuteCheck(SyncTask)
    \/ AcquireMinuteWake(SyncTask)
    \/ AcquireMinuteAfter(SyncTask)
    \/ AcquireHourCheck(SyncTask)
    \/ AcquireHourWake(SyncTask)
    \/ AcquireHourAfter(SyncTask)
    \/ ReqHttpSend(SyncTask)
    \/ LoopHttpResponse(SyncTask)
    \/ ReqWake(SyncTask)
    \/ UploadAfterRequest(SyncTask)

SpecLoop == InitBackgroundSync /\ [][NextLoop]_vars

\* the batches that the pending items of a full queue make
Batches == (NumItems + max_batch_size - 1) \div max_batch_size

\* iterations after which every batch has been due: none is due in the first
\* iteration, and a sleep of the loop is at least a second
FairIterations == 1 + upload_interval * Batches

\* the answers while the server works: every request is answered with 200,
\* a batch request with the results of all its items
FairAnswers == {a \in HttpAnswers : a.status = 200}

\* the user has logged in, with a token that outlasts the iterations, and
\* any number of items of any types are pending
InitLoopFair ==
    /\ InitClock
    /\ InitTasks
    /\ InitRateLimiter
    /\ InitTokenManager(save_token([access |-> 0, expires_at |-> FairIterations * 24 * HOUR * Sec]))
    /\ InitRequests
    /\ \E n \in 1..NumItems : \E types \in [1..n -> ItemTypes] :
        LET item(i) == NewSyncItem(i, types[i], "upload")
        IN /\ queue = [i \in Ids |-> IF i <= n THEN RowOf(item(i)) ELSE None]
           /\ next_id = n
           /\ enq_last = [i \in Ids |-> IF i <= n THEN [item |-> item(i), replaced |-> FALSE]
                                         ELSE None]
    /\ up_items = [t \in Tasks |-> <<>>]
    /\ up_groups = [t \in Tasks |-> <<>>]
    /\ up_results = [t \in Tasks |-> NoResults]
    /\ reported = [i \in Ids |-> None]
    /\ transitions = {}
    /\ up_raised = [t \in Tasks |-> {}]
    /\ fn_in = None
    /\ fn_out = None
    /\ restarts = 0
    /\ InitWatcher(None)
    /\ cache = [k \in CacheKeys |-> None]
    /\ cache_last = [k \in CacheKeys |-> None]
    /\ metadata = None
    /\ cached = [t \in Tasks |-> None]
    /\ InitBackground

\* the steps of the loop and of the calls it makes, while the server works
LoopFairSteps ==
    \/ /\ loop_pc = "none"
       /\ start_background_sync
    \/ LoopIterateUpTo(FairIterations)
    \/ LoopCheckUpload
    \/ LoopAfterUpload
    \/ LoopCheckDownload
    \/ LoopAfterDownload
    \/ LoopCheckFull
    \/ LoopAfterFullUpload
    \/ LoopFullRecommendations
    \/ LoopAfterFullRecommendations
    \/ LoopFullFeatures
    \/ LoopAfterFullFeatures
    \/ LoopWake
    \/ GvtEntry(SyncTask)
    \/ AcquireEnter(SyncTask)
    \/ AcquireMinuteCheck(SyncTask)
    \/ AcquireMinuteWake(SyncTask)
    \/ AcquireMinuteAfter(SyncTask)
    \/ AcquireHourCheck(SyncTask)
    \/ AcquireHourWake(SyncTask)
    \/ AcquireHourAfter(SyncTask)
    \/ ReqHttpSend(SyncTask)
    \/ ReqHttpResponseFrom(SyncTask, FairAnswers, {0})
    \/ UploadAfterRequestListing(SyncTask, AllResults)

\* the loop is started and never stopped
NextLoopFair ==
    \/ TickNeeded
    \/ LoopFairSteps

\* the loop task is resumed whenever it can go on, every request is
\* answered, and the clock goes on
FairLoop ==
    /\ WF_vars(TickNeeded)
    /\ WF_vars(LoopFairSteps)

SpecLoopFair == InitLoopFair /\ [][NextLoopFair]_vars /\ FairLoop

\* the state before a call of the parser on one of `inputs`
InitParser(inputs) ==
    /\ InitClock
    /\ InitTasks
    /\ InitRateLimiter
    /\ InitTokenManager(None)
    /\ InitRequests
    /\ InitQueue
    /\ fn_in \in inputs
    /\ fn_out = None
    /\ enq_last = [i \in Ids |-> None]
    /\ restarts = 0
    /\ InitWatcher(None)
    /\ cache = [k \in CacheKeys |-> None]
    /\ cache_last = [k \in CacheKeys |-> None]
    /\ metadata = None
    /\ cached = [t \in Tasks |-> None]
    /\ InitBackground

\* the characters numeric literals are made of
NumberChars == {"-", "+", ".", "0", "1", "9", "a", "e", "E", "F", "x"}

\* the texts of up to MaxLiteral characters that the number pattern of
\* _parse_value() matches as a whole
NumericLiterals ==
    {t \in UNION {[1..n -> NumberChars] : n \in 1..MaxLiteral} : NumberLen(t, 0) = Len(t)}

\* _parse_value(content, 0) is called on the text
CallParseValue ==
    /\ fn_out = None
    /\ fn_out' = parse_value(fn_in.content, 0)
    /\ UNCHANGED <<clockVars, taskVars, rlVars, tmVars, reqVars, upVars, fn_in, storeVars,
                   bgVars>>

\* one numeric literal is parsed
InitNumber == InitParser({[content |-> t] : t \in NumericLiterals})

SpecNumber == InitNumber /\ [][CallParseValue]_vars

\* the keys written in the tables parsed, by number: 1, 2, 3, "a" and "b"
WrittenKeys == 1..5

\* the key and the value of an entry as Python values
KeyOf(k) ==
    CASE k = 1 -> PyInt(1)
      [] k = 2 -> PyInt(2)
      [] k = 3 -> PyInt(3)
      [] k = 4 -> PyStr(<<"a">>)
      [] k = 5 -> PyStr(<<"b">>)

ValueOf(k) ==
    CASE k = 1 -> PyInt(7)
      [] k = 2 -> PyInt(8)
      [] k = 3 -> PyInt(9)
      [] k = 4 -> PyInt(1)
      [] k = 5 -> PyList(<<PyInt(1), PyInt(2), PyInt(3)>>)

\* the text of the value of an entry, and of the entry with its key in brackets
ValueText(k) ==
    CASE k = 1 -> <<"7">>
      [] k = 2 -> <<"8">>
      [] k = 3 -> <<"9">>
      [] k = 4 -> <<"1">>
      [] k = 5 -> <<"{", "1", ",", "2", ",", "3", "}">>

EntryText(k) ==
    (CASE k = 1 -> <<"[", "1", "]">>
       [] k = 2 -> <<"[", "2", "]">>
       [] k = 3 -> <<"[", "3", "]">>
       [] k = 4 -> <<"[", "\"", "a", "\"", "]">>
       [] k = 5 -> <<"[", "\"", "b", "\"", "]">>)
    \o <<"=">> \o ValueText(k)

\* the entries joined by ", "
RECURSIVE Joined(_)
Joined(texts) ==
    IF texts = <<>> THEN <<>>
    ELSE IF Len(texts) = 1 THEN texts[1]
    ELSE texts[1] \o <<",", " ">> \o Joined(Tail(texts))

\* the table { entry, entry, ... }
TableText(texts) == <<"{", " ">> \o Joined(texts) \o <<" ", "}">>

\* the orders in which up to MaxEntries different keys can be written
KeyOrders ==
    {ks \in UNION {[1..n -> WrittenKeys] : n \in 0..MaxEntries} :
        \A i, j \in 1..Len(ks) : i # j => ks[i] # ks[j]}

\* the tables parsed: entries with their keys in brackets in any order, and
\* values without keys, which take the keys 1, 2, ...
TableInputs ==
    {[content |-> TableText([i \in 1..Len(ks) |-> EntryText(ks[i])]), keys |-> ks] :
        ks \in KeyOrders}
    \cup {[content |-> TableText([i \in 1..n |-> ValueText(i)]), keys |-> [i \in 1..n |-> i]] :
            n \in 1..MaxEntries}

\* _parse_table(content, 0) is called on the text
CallParseTable ==
    /\ fn_out = None
    /\ fn_out' = parse_table(fn_in.content, 0)
    /\ UNCHANGED <<clockVars, taskVars, rlVars, tmVars, reqVars, upVars, fn_in, storeVars,
                   bgVars>>

\* one table is parsed
InitTable == InitParser(TableInputs)

SpecTable == InitTable /\ [][CallParseTable]_vars

\* the table bodies written in the files parsed, by number: 1..3 are well
\* formed, 4..6 are malformed
GoodBodies == 1..3
BadBodies == 4..6

\* { 1 }, { x = { 1 } }, { "s" }; { 1, ] }, { x = { 1 }, ] }, and { 1 without
\* its closing brace
BodyText(b) ==
    CASE b = 1 -> <<"{", " ", "1", " ", "}">>
      [] b = 2 -> <<"{", " ", "x", " ", "=", " ", "{", " ", "1", " ", "}", " ", "}">>
      [] b = 3 -> <<"{", " ", "\"", "s", "\"", " ", "}">>
      [] b = 4 -> <<"{", " ", "1", ",", " ", "]", " ", "}">>
      [] b = 5 -> <<"{", " ", "x", " ", "=", " ", "{", " ", "1", " ", "}", ",", " ", "]",
                    " ", "}">>
      [] b = 6 -> <<"{", " ", "1">>

\* the Python value of a well-formed body
BodyValue(b) ==
    CASE b = 1 -> PyList(<<PyInt(1)>>)
      [] b = 2 -> PyDict(<<<<PyStr(<<"x">>), PyList(<<PyInt(1)>>)>>>>)
      [] b = 3 -> PyList(<<PyStr(<<"s">>)>>)

\* the name of the i-th top-level variable of a file
VariableName(i) ==
    CASE i = 1 -> <<"A">>
      [] i = 2 -> <<"B">>
      [] i = 3 -> <<"C">>
      [] OTHER -> <<"D">>

\* the file: one line `name = body` for each body
RECURSIVE FileText(_, _)
FileText(bodies, i) ==
    IF i > Len(bodies) THEN <<>>
    ELSE VariableName(i) \o <<" ", "=", " ">> \o BodyText(bodies[i]) \o <<"\n">>
         \o FileText(bodies, i + 1)

\* the files parsed: two to MaxAssignments top-level assignments of which at
\* most one is malformed
FileInputs ==
    {[content |-> FileText(bodies, 1), bodies |-> bodies] :
        bodies \in {bs \in UNION {[1..n -> GoodBodies \cup BadBodies] : n \in 2..MaxAssignments} :
                      Cardinality({i \in 1..Len(bs) : bs[i] \in BadBodies}) <= 1}}

\* parse(lua_content) is called on the file
CallParse ==
    /\ fn_out = None
    /\ fn_out' = parse(fn_in.content)
    /\ UNCHANGED <<clockVars, taskVars, rlVars, tmVars, reqVars, upVars, fn_in, storeVars,
                   bgVars>>

\* one file is parsed
InitFile == InitParser(FileInputs)

SpecFile == InitFile /\ [][CallParse]_vars

\* the answers of the server to the requests of resolve_conflict() and of
\* flushes; it may be down while a resolve_conflict() that is the first call
\* is served, and then it answers 500 to every attempt of that call
ResolveAnswers(t) ==
    IF last_exception[t] # None
    THEN {a \in HttpAnswers : a.status = 500}
    ELSE {a \in HttpAnswers : a.status \in {200, 404} \/ (a.status = 500 /\ calls = 1 /\ op[t] = "resolve")}
         \cup {[status |-> 204, has_retry_after |-> FALSE, retry_after |-> 0]}

ResolveHttpResponse(t) ==
    ReqHttpResponseFrom(t, ResolveAnswers(t), {0})

\* a row in conflict status: one attempt made, the conflict noted
ConflictRow ==
    [item_type |-> "combat_run", direction |-> "upload", status |-> "conflict",
     data |-> json_dumps(ItemData("combat_run")),
     checksum |-> calculate_checksum(ItemData("combat_run")),
     created_at |-> 0, updated_at |-> 0, attempts |-> 1,
     last_error |-> [text |-> "conflict"]]

\* the user has logged in, and the queue of an earlier run holds two items in
\* conflict status and after them a pending item
InitResolve ==
    /\ InitClock
    /\ InitTasks
    /\ InitRateLimiter
    /\ \E st \in InitialStored \ {None} : InitTokenManager(st)
    /\ InitRequests
    /\ \E n \in {2} :
        /\ queue = [i \in Ids |-> IF i <= n THEN ConflictRow
                                  ELSE IF i = n + 1 THEN [ConflictRow EXCEPT !.status = "pending",
                                                                             !.attempts = 0,
                                                                             !.last_error = None]
                                  ELSE None]
        /\ next_id = n + 1
    /\ up_items = [t \in Tasks |-> <<>>]
    /\ up_groups = [t \in Tasks |-> <<>>]
    /\ up_results = [t \in Tasks |-> NoResults]
    /\ reported = [i \in Ids |-> None]
    /\ transitions = {}
    /\ up_raised = [t \in Tasks |-> {}]
    /\ InitNoCall

\* one task resolves conflicts and flushes the upload queue, in any order
NextResolve ==
    \/ TickNeeded
    \/ flush_upload_queue(Caller)
    \/ \E i \in Rows, resolution \in ConflictResolutions, custom_data \in BOOLEAN :
          resolve_conflict(Caller, i, resolution, custom_data)
    \/ GvtEntry(Caller)
    \/ GvtLocked(Caller)
    \/ GvtRefreshResponse(Caller)
    \/ AcquireEnter(Caller)
    \/ AcquireMinuteCheck(Caller)
    \/ AcquireMinuteWake(Caller)
    \/ AcquireMinuteAfter(Caller)
    \/ AcquireHourCheck(Caller)
    \/ AcquireHourWake(Caller)
    \/ AcquireHourAfter(Caller)
    \/ ReqHttpSend(Caller)
    \/ ResolveHttpResponse(Caller)
    \/ ReqWake(Caller)
    \/ UploadAfterRequest(Caller)
    \/ ResolveAfterRequest(Caller)
    \/ Finish(Caller)

SpecResolve == InitResolve /\ [][NextResolve]_vars

\* the watcher is constructed next to the file of an earlier session, or to
\* none
InitWatch ==
    /\ InitClock
    /\ InitTasks
    /\ InitRateLimiter
    /\ InitTokenManager(None)
    /\ InitRequests
    /\ InitQueue
    /\ fn_in = None
    /\ fn_out = None
    /\ enq_last = [i \in Ids |-> None]
    /\ restarts = 0
    /\ cache = [k \in CacheKeys |-> None]
    /\ cache_last = [k \in CacheKeys |-> None]
    /\ metadata = None
    /\ cached = [t \in Tasks |-> None]
    /\ InitBackground
    /\ \E f \in {None, Content(RunList(1), TRUE, 0, 1)} : InitWatcher(f)

\* the game writes the file and the watcher handles the modifications
NextWatch ==
    \/ WriteFile
    \/ Notify
    \/ start_watching
    \/ on_modified
    \/ \E th \in WatchThreads : HandleRead(th)
    \/ \E th \in WatchThreads : HandleProcess(th)

SpecWatch == InitWatch /\ [][NextWatch]_vars

\* the acquire() calls of one task, and reads of the remaining counts between
\* their steps
NextRemaining ==
    \/ Tick
    \/ TickNeeded
    \/ acquire(Caller)
    \/ AcquireEnter(Caller)
    \/ AcquireMinuteCheck(Caller)
    \/ AcquireMinuteWake(Caller)
    \/ AcquireMinuteAfter(Caller)
    \/ AcquireHourCheck(Caller)
    \/ AcquireHourWake(Caller)
    \/ AcquireHourAfter(Caller)
    \/ Finish(Caller)
    \/ ReadRemaining

SpecRemaining == Init /\ [][NextRemaining]_vars

\* ------------------------------------------------------------------ claims
\* the grants that lie in the closed window [from, from + len]
GrantsIn(from, len) ==
    {i \in 1..Len(grants) : grants[i] >= from /\ grants[i] <= from + len}

C2_OneRefresh ==
    \A t \in Tasks :
        (op[t] = "get_valid_token" /\ pc[t] = "done" /\ covered[t] # None) =>
            /\ result[t] = Ok(covered[t].token)
            /\ sent[t] = IF covered[t].by = t THEN 1 ELSE 0

\* two concurrent callers have returned the token of the one refresh
C2_Witness ==
    \E t, u \in Tasks :
        /\ t # u
        /\ op[t] = "get_valid_token" /\ pc[t] = "done"
        /\ op[u] = "get_valid_token" /\ pc[u] = "done"
        /\ covered[t] # None /\ covered[t] = covered[u]
        /\ issued = 1

\* C6 (as claimed): once a refresh was rejected with 401 and until a login,
\* every get_valid_token() call that ends, a call that waited on the refresh
\* lock included, raises AuthenticationError.
C6_RaisesAfterRejectedRefresh ==
    \A t \in Tasks :
        (late[t] /\ gvt_out[t] # None) =>
            (gvt_out[t].kind = "raised" /\ gvt_out[t].exc = "AuthenticationError")

\* C5 (as claimed): at no time are two POST /auth/refresh requests in flight,
\* and a task with a refresh in flight holds the refresh lock.
C5_RefreshUnderLock ==
    /\ Cardinality(inflight) <= 1
    /\ \A t \in inflight : refresh_lock = t

\* C7 (as claimed): _request() raises AuthenticationError("Authentication
\* failed") only when a second 401 was received for the request; the first
\* 401, on whichever attempt, leads to a refresh and a retry.
C7_AuthErrorOnlyAfterSecond401 ==
    \A t \in Tasks :
        (op[t] = "request" /\ pc[t] = "done"
         /\ result[t] = Raised("AuthenticationError", "Authentication failed"))
            => n401[t] >= 2

\* C8: after a 429 answer that carried Retry-After: s, every later HTTP call of
\* the same _request() is sent at least s seconds after that answer arrived.
C8_RetryAfterRespected ==
    \A t \in Tasks :
        (last429[t] # None /\ http_calls[t] > last429[t].calls) =>
            call_at[t] >= last429[t].at + last429[t].retry_after * Sec

\* a call was sent after a 429 with a Retry-After of 5 seconds
C8_Witness ==
    \E t \in Tasks :
        /\ last429[t] # None
        /\ last429[t].retry_after = 5
        /\ http_calls[t] > last429[t].calls
        /\ pc[t] = "http_wait"

\* C9: a _request() call sends at most max_retries HTTP calls, and once
\* started it ends: with a response returned or with an exception raised.
C9_BoundedAndTerminates ==
    /\ [](\A t \in Tasks : http_calls[t] <= max_retries)
    /\ \A t \in Tasks :
        (op[t] = "request" /\ pc[t] # "idle") ~>
            (pc[t] = "done" /\ result[t] # None /\ result[t].kind \in {"ok", "raised"})

\* a _request() ended by raising after max_retries HTTP calls
C9_Witness ==
    \E t \in Tasks :
        /\ op[t] = "request" /\ pc[t] = "done"
        /\ http_calls[t] = max_retries
        /\ result[t].kind = "raised"
        /\ result[t].exc \in {"RateLimitError", "HTTPStatusError", "NetworkError"}

\* C10: a 4xx answer other than 401 and 429 ends _request() at once with
\* SyncError: no wait and no HTTP call follows it.
C10_ClientErrorNotRetried ==
    \A t \in Tasks :
        got4xx[t] # None =>
            /\ pc[t] = "done"
            /\ result[t] = Raised("SyncError", "API error")
            /\ http_calls[t] = got4xx[t].calls

\* a 404 answered a retried request, which raised SyncError
C10_Witness ==
    \E t \in Tasks :
        /\ got4xx[t] # None
        /\ http_calls[t] >= 2
        /\ result[t] = Raised("SyncError", "API error")

\* C3: when a batch request succeeds, each item's status comes from its own
\* entry of the results: an item reported successful is uploaded, an item
\* reported failed is failed with the reported error, whatever the server
\* reported for the other items of the batch
C3_PerItemResults ==
    \A i \in Rows :
        reported[i] # None =>
            IF reported[i].success
            THEN queue[i].status = "uploaded" /\ queue[i].last_error = None
            ELSE /\ queue[i].status = "failed"
                 /\ queue[i].last_error = ReportedError(reported[i])

\* one batch request answered with a success for one item and a failure for
\* another item of the same type
C3_Witness ==
    \E i, j \in Rows :
        /\ i # j
        /\ queue[i].item_type = queue[j].item_type
        /\ reported[i] # None /\ reported[i].success
        /\ reported[j] # None /\ ~reported[j].success /\ reported[j].has_error
        /\ queue[i].status = "uploaded"
        /\ queue[j].status = "failed"
        /\ queue[i].updated_at = queue[j].updated_at

\* the status changes of the state machine pending -> uploading ->
\* {uploaded | failed | conflict}
AllowedTransitions ==
    {<<"pending", "uploading">>, <<"uploading", "uploaded">>,
     <<"uploading", "failed">>, <<"uploading", "conflict">>}

\* C4: every status change of an item follows pending -> uploading ->
\* {uploaded | failed | conflict}; uploaded and failed are reached only from
\* uploading, never directly from pending
C4_StateMachine ==
    transitions \subseteq AllowedTransitions

\* C11: for every attempt k and every pair of jitter draws,
\* _calculate_backoff(k) <= _calculate_backoff(k + 1) and
\* _calculate_backoff(k) <= max_retry_delay; below the cap the delay is
\* base_retry_delay * 2^k plus a jitter of at most 25% of that value
C11_BackoffMonotoneAndCapped ==
    fn_out # None =>
        LET delay == base_retry_delay * Sec * Pow2(fn_in.attempt)
        IN /\ fn_out.at <= fn_out.next
           /\ fn_out.at <= max_retry_delay * Sec
           /\ fn_out.next <= max_retry_delay * Sec
           /\ fn_out.at < max_retry_delay * Sec =>
                (fn_out.at >= delay /\ 4 * (fn_out.at - delay) <= delay)

\* the largest jitter at attempt k meets the smallest at k + 1, both below
\* the cap
C11_Witness ==
    /\ fn_out # None
    /\ fn_in.draws = <<99, 0>>
    /\ fn_in.attempt = 2
    /\ fn_out.at > base_retry_delay * Sec * Pow2(fn_in.attempt)
    /\ fn_out.next < max_retry_delay * Sec

\* C12 (as claimed): an AuthenticationError raised by a _request() of an upload
\* cycle leaves the cycle as that exception: flush_upload_queue() does not
\* return a result with the items marked failed
C12_AuthErrorPropagates ==
    \A t \in Tasks :
        (op[t] = "upload" /\ pc[t] = "done"
         /\ \E ty \in ItemTypes : <<ty, "AuthenticationError">> \in up_raised[t])
            => (result[t].kind = "raised" /\ result[t].exc = "AuthenticationError")

\* C13 (as claimed): when the batch request of one item type fails, for
\* whatever reason, the items of that type are marked failed and the cycle
\* goes on: it ends with every group sent and with a result returned
C13_GroupFailureIsolated ==
    \A t \in Tasks :
        (op[t] = "upload" /\ pc[t] = "done") =>
            \A f \in up_raised[t] :
                /\ \A x \in 1..Len(up_items[t]) :
                      queue[up_items[t][x]].item_type = f[1] =>
                          queue[up_items[t][x]].status = "failed"
                /\ up_groups[t] = <<>>
                /\ result[t].kind = "ok"

\* C16: after any sequence of enqueue() calls the queue holds one row for
\* each id enqueued and no other row, the row carries the fields of the last
\* enqueue of that id, and an enqueue of an id already present leaves the
\* number of rows unchanged
C16_EnqueueOverwrites ==
    /\ \A i \in Ids :
        IF enq_last[i] = None
        THEN queue[i] = None
        ELSE queue[i] = RowOf(enq_last[i].item)
    /\ Cardinality(Rows) = Cardinality({i \in Ids : enq_last[i] # None})

\* an id was enqueued again with other fields, next to a second id
C16_Witness ==
    /\ \E i \in Ids :
        /\ enq_last[i] # None
        /\ enq_last[i].replaced
        /\ enq_last[i].item.item_type = "build_snapshot"
        /\ enq_last[i].item.created_at = 1
    /\ Cardinality(Rows) = 2

\* C17: dequeue_batch(direction, status, limit) returns min(limit, number of
\* matching rows) rows, all of that direction and status, in ascending order
\* of created_at, none of them newer than a matching row left behind; and the
\* items of each item type go into that type's batch in the same order
C17_OldestFirst ==
    fn_out # None =>
        LET q == fn_in.table
            b == fn_out.batch
            match == {i \in Ids : /\ q[i] # None
                                  /\ q[i].direction = fn_in.direction
                                  /\ q[i].status = fn_in.status}
            taken == {b[x] : x \in 1..Len(b)}
        IN /\ Len(b) = Min(fn_in.limit, Cardinality(match))
           /\ taken \subseteq match
           /\ Cardinality(taken) = Len(b)
           /\ \A x, y \in 1..Len(b) : x < y => q[b[x]].created_at <= q[b[y]].created_at
           /\ \A i \in match \ taken : \A x \in 1..Len(b) :
                 q[b[x]].created_at <= q[i].created_at
           /\ \A ty \in ItemTypes :
                LET g == fn_out.by_type[ty]
                IN /\ {g[x] : x \in 1..Len(g)} = {i \in taken : q[i].item_type = ty}
                   /\ \A x, y \in 1..Len(g) : x < y =>
                         q[g[x]].created_at < q[g[y]].created_at
                         \/ (q[g[x]].created_at = q[g[y]].created_at /\ g[x] # g[y])

\* a dequeue that returned two rows of one type, the older one created off a
\* full second and the newer one on it
C17_Witness ==
    /\ fn_out # None
    /\ Len(fn_out.batch) = 2
    /\ \E ty \in ItemTypes : Len(fn_out.by_type[ty]) = 2
    /\ fn_in.table[fn_out.batch[1]].created_at = 1
    /\ fn_in.table[fn_out.batch[2]].created_at = Sec

\* the rows a flush of the upload queue selects from
PendingUploads ==
    {i \in Rows : queue[i].direction = "upload" /\ queue[i].status = "pending"}

\* the step is a flush_upload_queue() of the restarted agent, and the items
\* it hands to _process_upload_batch()
FlushAfterRestart ==
    /\ restarts > 0
    /\ pc[Caller] = "idle"
    /\ op'[Caller] = "upload"
    /\ calls' = calls + 1

Flushed ==
    {up_items'[Caller][x] : x \in 1..Len(up_items'[Caller])}

C19_ExpiredNeverReturned ==
    fn_out # None =>
        LET key == fn_in.key
            last == cache_last[key]
            expired == /\ last.ttl_seconds # None
                       /\ last.ttl_seconds.seconds > 0
                       /\ last.at + last.ttl_seconds.seconds * Sec <= fn_in.at
        IN /\ \A k \in CacheKeys \ {key} : fn_out.table[k] = fn_in.table[k]
           /\ last = None => fn_out.value = None /\ fn_out.table[key] = None
           /\ last # None /\ expired =>
                 fn_out.value = None /\ fn_out.table[key] = None
           /\ last # None /\ ~expired =>
                 /\ fn_out.value = last.data
                 /\ fn_out.table[key] # None
                 /\ fn_out.table[key] = fn_in.table[key]

\* a get_cached() at the very instant of expires_at found the row, returned
\* none and deleted it, the row of the other key staying in place
C19_Witness ==
    /\ fn_out # None
    /\ fn_in.table[fn_in.key] # None
    /\ fn_in.table[fn_in.key].expires_at # None
    /\ fromisoformat(fn_in.table[fn_in.key].expires_at) = fn_in.at
    /\ fn_out.value = None
    /\ fn_out.table[fn_in.key] = None
    /\ \E k \in CacheKeys \ {fn_in.key} : fn_out.table[k] # None

\* the step ends a logout()
LogoutEnds ==
    \E t \in Tasks : op'[t] = "logout" /\ pc[t] # "done" /\ pc'[t] = "done"

\* the step is a refresh answered with 401
RefreshRejected ==
    \E t \in Tasks : /\ pc[t] = "refresh_wait"
                      /\ gvt_out'[t] = Raised("AuthenticationError", "Refresh token expired")

\* C20: the store holds one token row at most; a successful login or refresh
\* writes its token to the store and to memory, only a logout or a rejected
\* refresh removes it, and nothing else changes the stored token, so that it
\* is the token of the most recent successful login or refresh unless a logout
\* or a rejected refresh came later; the token in memory, when set, is the one
\* get_token() reads from the store; and a restart leaves the store alone and
\* load_token() of the new TokenManager returns that token, no login needed
C20_OneLiveToken ==
    /\ [](token # None => token = get_token)
    /\ [][/\ issued' = issued + 1 =>
               /\ token' # None
               /\ token'.access = issued'
               /\ stored' = save_token(token')
          /\ (LogoutEnds \/ RefreshRejected) => (stored' = None /\ token' = None)
          /\ stored' # stored => (issued' = issued + 1 \/ LogoutEnds \/ RefreshRejected)
          /\ restarts' = restarts + 1 =>
               /\ stored' = stored
               /\ token' = None
               /\ token # None => load_token' = token
        ]_vars

\* a token issued by a login at an instant off the full second is in the store
\* of a restarted agent, whose memory is empty and whose load_token() returns it
C20_Witness ==
    /\ restarts = 1
    /\ token = None
    /\ stored # None
    /\ stored.access >= 1
    /\ load_token.access = stored.access
    /\ load_token.expires_at % Sec # 0

\* ---------------------------------------------------------------------------
\* The background loop: failures of a cycle, and stopping it
\* ---------------------------------------------------------------------------

\* an exception of an upload, download or full-sync cycle reaches the handler
\* of the loop in this step
CycleFails == loop_errors' = loop_errors + 1

\* the sync task is waiting for the answer to the request of a batch upload
InFlightUpload ==
    /\ loop_pc \in {"upload", "full_upload"}
    /\ op[SyncTask] = "upload"
    /\ pc[SyncTask] = "http_wait"

\* C14: while the running flag is set, no failure of an upload, download or
\* full-sync cycle ends the background loop: the loop has ended only when the
\* flag is cleared; the step in which a cycle fails puts the loop into its
\* sleep of ten seconds; that sleep ends, the flag still set, at the head of
\* the loop only; and from the head of the loop, the flag set, the next
\* iteration begins
C14_FailureNeverEndsLoop ==
    /\ [](loop_pc = "ended" => ~running)
    /\ [][/\ CycleFails =>
               /\ running'
               /\ loop_pc' = "backoff"
               /\ loop_wake' = now + 10 * Sec
          /\ (loop_pc = "backoff" /\ running') =>
               \/ loop_pc' = "backoff"
               \/ loop_pc' = "top" /\ now >= loop_wake
          /\ (loop_pc = "top" /\ running /\ loop_pc' # "top") =>
               /\ loop_pc' = "check_upload"
               /\ loop_iter' = loop_iter + 1
        ]_vars

\* a cycle has failed, the ten seconds have passed, and the loop, still
\* running, is in a later iteration than the one that failed
C14_Witness ==
    /\ running
    /\ loop_errors >= 1
    /\ loop_iter > err_iter
    /\ loop_pc \notin {"none", "ended", "backoff"}
    /\ now >= loop_wake

\* C15: when stop_background_sync() or close() is called while a batch upload
\* request of the background loop is in flight, the request is allowed to
\* complete: the call leaves the sync task waiting for the answer with its
\* batch, and the loop does not end in that step
C15_InFlightUploadCompletes ==
    [][(InFlightUpload /\ running /\ ~running') =>
           /\ loop_pc' # "ended"
           /\ pc'[SyncTask] = "http_wait"
           /\ up_items'[SyncTask] = up_items[SyncTask]
      ]_vars

\* ---------------------------------------------------------------------------
\* logout
\* ---------------------------------------------------------------------------

\* C21: logout() always ends with the persisted token and the in-memory token
\* cleared, and returns without raising, whether POST /auth/logout was
\* answered (with any status), raised, or was not made at all
C21_LogoutAlwaysClears ==
    [][\A t \in Tasks :
          (op'[t] = "logout" /\ pc[t] # "done" /\ pc'[t] = "done") =>
              /\ token' = None
              /\ stored' = None
              /\ get_token' = None
              /\ result'[t] = Ok(None)
              /\ fn_in'.call = "logout"
              /\ fn_in'.posted = (pc[t] = "logout_wait")
      ]_vars

\* a logout after a login has ended although its request raised: the token
\* the login had stored is gone from the store and from memory
C21_Witness ==
    /\ \E t \in Tasks : op[t] = "logout" /\ pc[t] = "done"
    /\ issued >= 1
    /\ fn_in # None
    /\ fn_in.posted
    /\ fn_in.outcome.kind = "raised"
    /\ token = None
    /\ stored = None

\* ---------------------------------------------------------------------------
\* LuaTableParser
\* ---------------------------------------------------------------------------

\* the literal has the 0x prefix, after the sign if there is one
IsHexLiteral(t) ==
    StartsWith(t, 0, <<"0", "x">>) \/ StartsWith(t, 0, <<"-", "0", "x">>)

\* the integer a hexadecimal or decimal literal denotes
Denoted(t, base) ==
    LET digits == SelectSeq(t, LAMBDA c : c \notin {"-", "x"})
        hex == IF t[1] = "-" THEN SubSeq(t, 4, Len(t)) ELSE SubSeq(t, 3, Len(t))
        value == IF base = 16 THEN DigitsValue(hex, 16) ELSE DigitsValue(digits, 10)
    IN IF t[1] = "-" THEN 0 - value ELSE value

\* C28: every numeric literal with a 0x prefix is parsed as the hexadecimal
\* integer it denotes; a literal with a '.' or an exponent is parsed as
\* floating point, every other one as a decimal integer; and no numeric
\* literal makes the parser raise
C28_NumericLiterals ==
    fn_out # None =>
        LET t == fn_in.content
            v == fn_out.value
        IN /\ fn_out.raised = ""
           /\ IsHexLiteral(t) => (v.type = "int" /\ Num(v) = Denoted(t, 16))
           /\ (~IsHexLiteral(t) /\ \E i \in 1..Len(t) : t[i] \in {".", "e", "E"}) =>
                 v.type = "float"
           /\ (~IsHexLiteral(t) /\ \A i \in 1..Len(t) : t[i] \notin {".", "e", "E"}) =>
                 (v.type = "int" /\ Num(v) = Denoted(t, 10))

\* the keys written are exactly the integers 1..N, N >= 1
KeysAreRun(ks) ==
    /\ ks # <<>>
    /\ {ks[i] : i \in 1..Len(ks)} = 1..Len(ks)

\* { ["a"]=1, ["b"]={1,2,3} }
ExampleTable == TableText(<<EntryText(4), EntryText(5)>>)

\* C26: a fully parsed table is returned as a Sequence if and only if its
\* collected keys are exactly the integers 1..N, in whatever order they were
\* written, the element at i being the value written for key i; otherwise it
\* is returned as a Mapping with the keys in the order written; and
\* { ["a"]=1, ["b"]={1,2,3} } yields the Mapping of a to 1 and b to the
\* Sequence 1, 2, 3
C26_SequenceIffKeysAreRun ==
    fn_out # None =>
        LET ks == fn_in.keys
            v == fn_out.value
        IN /\ fn_out.raised = ""
           /\ fn_out.pos = Len(fn_in.content)
           /\ (v.type = "list") = KeysAreRun(ks)
           /\ (v.type = "dict") = ~KeysAreRun(ks)
           /\ v.type = "list" =>
                /\ Len(v.items) = Len(ks)
                /\ \A i \in 1..Len(ks) : v.items[ks[i]] = ValueOf(ks[i])
           /\ v.type = "dict" =>
                /\ Len(v.items) = Len(ks)
                /\ \A i \in 1..Len(ks) :
                      /\ PyEq(v.items[i][1], KeyOf(ks[i]))
                      /\ v.items[i][2] = ValueOf(ks[i])
           /\ fn_in.content = ExampleTable =>
                v = PyDict(<<<<PyStr(<<"a">>), PyInt(1)>>,
                             <<PyStr(<<"b">>), PyList(<<PyInt(1), PyInt(2), PyInt(3)>>)>>>>)

\* the well-formed top-level variables of a file, in the order written
WellFormed(bodies) ==
    SelectSeq([i \in 1..Len(bodies) |-> i], LAMBDA i : bodies[i] \in GoodBodies)

\* C27: for a file with several top-level assignments of which one is
\* malformed, parse() returns without raising and its result holds exactly the
\* well-formed top-level variables with their values: the malformed one is
\* absent, the well-formed ones after it are present, and no other name (such
\* as a field nested inside the malformed table) is a key
C27_OnlyMalformedLost ==
    (fn_out # None /\ \E i \in 1..Len(fn_in.bodies) : fn_in.bodies[i] \in BadBodies) =>
        LET ws == WellFormed(fn_in.bodies)
        IN /\ fn_out.raised = ""
           /\ fn_out.value.type = "dict"
           /\ Len(fn_out.value.items) = Len(ws)
           /\ \A j \in 1..Len(ws) :
                 /\ fn_out.value.items[j][1] = PyStr(VariableName(ws[j]))
                 /\ fn_out.value.items[j][2] = BodyValue(fn_in.bodies[ws[j]])

\* the grants within the trailing len clock units
TrailingGrants(len) == Cardinality({i \in 1..Len(grants) : grants[i] >= now - len})

\* C29: reading remaining_minute and remaining_hour changes neither window
\* and grants nothing; each is max(0, limit - grants within the trailing
\* 60 s / 3600 s); and the step that grants an acquire() lowers each by
\* exactly one when it was positive
C29_RemainingReportsHeadroom ==
    [][/\ fn_out' # fn_out =>
            /\ UNCHANGED <<minute_window, hour_window, grants, rl_lock, pc>>
            /\ fn_out'.minute = IF rpm_limit - TrailingGrants(MINUTE * Sec) > 0
                                THEN rpm_limit - TrailingGrants(MINUTE * Sec) ELSE 0
            /\ fn_out'.hour = IF rph_limit - TrailingGrants(HOUR * Sec) > 0
                              THEN rph_limit - TrailingGrants(HOUR * Sec) ELSE 0
       /\ Len(grants') = Len(grants) + 1 =>
            /\ remaining_minute > 0 => remaining_minute' = remaining_minute - 1
            /\ remaining_hour > 0 => remaining_hour' = remaining_hour - 1]_vars

\* a read after a grant has left the minute: the stale entry is still in the
\* window and is not counted
C29_Witness ==
    /\ fn_out # None
    /\ fn_in = [call |-> "remaining"]
    /\ Len(minute_window) = 2
    /\ fn_out.minute = rpm_limit - 1
    /\ fn_out.hour = rph_limit - 2
    /\ remaining_minute = fn_out.minute

HandledContent(th) == IF w_pc[th] = "process" THEN w_content[th] ELSE file

\* C22: a _handle_file_change() for a content whose hash is the last-seen
\* hash, on either thread and also while the other thread is in its own
\* call, invokes neither the parser nor on_file_change, on_combat_run or
\* on_build_change and leaves the last-seen hash and the seen-id set as
\* they are
C22_SameHashIgnored ==
    [][\A th \in WatchThreads :
          (/\ w_pc[th] \in {"wait_lock", "process"}
           /\ w_pc'[th] = "idle"
           /\ HandledContent(th) # None
           /\ sha256(HandledContent(th)) = last_file_hash) =>
              /\ UNCHANGED <<last_file_hash, last_combat_runs, last_build_hash, run_reports,
                             build_event_hash>>
              /\ ~handled'.parsed
              /\ ~handled'.file_change
              /\ handled'.runs = <<>>
              /\ ~handled'.build_event]_vars

\* the observer has handled a further notification for the content already
\* processed, whose run was reported once, and more notifications wait
C22_Witness ==
    /\ handled # None
    /\ handled.kind = "unchanged"
    /\ handled.thread = "observer"
    /\ last_file_hash = sha256(file)
    /\ file.runs = <<1>>
    /\ run_reports[1] = 1
    /\ pending >= 1

\* C23: across any sequence of file changes, with any number of distinct run
\* ids in the file history, no run id is reported by on_combat_run twice
C23_NoRunReportedTwice ==
    \A id \in RunIds : run_reports[id] <= 1

\* C24: in every state the seen-id set holds at most MAX_CACHED_RUNS ids
C24_CacheBounded ==
    Cardinality(last_combat_runs) <= MAX_CACHED_RUNS

\* the set is full and an id that was reported has been evicted from it
C24_Witness ==
    /\ Cardinality(last_combat_runs) = MAX_CACHED_RUNS
    /\ \E id \in RunIds : run_reports[id] >= 1 /\ id \notin last_combat_runs

\* C25: a _handle_file_change() that gets as far as comparing the hashes
\* calls on_build_change exactly when the file has a current build whose
\* hash is not the one of the previous build event
C25_BuildEventIffChanged ==
    (handled # None /\ handled.kind \in {"processed", "unchanged"}) =>
        LET c == handled.content
            cur == IF c.parses /\ c.table THEN current_build(c) ELSE 0
        IN handled.build_event = (cur # 0 /\ sha256(cur) # handled.event_hash_before)

\* C31 (as claimed): when a 429 answer has no Retry-After header, the wait
\* before the next attempt is the backoff computed for that attempt number, for
\* some jitter draw: base_retry_delay * 2^attempt plus jitter, at most
\* max_retry_delay
C31_NoHeaderWaitsBackoff ==
    [][\A t \in Tasks :
        (/\ pc[t] = "http_wait"
         /\ pc'[t] = "req_sleep"
         /\ last_exception'[t] = Raised("RateLimitError", "Rate limit exceeded")
         /\ last429'[t] = last429[t])
        => \E j \in AllJitterDraws :
               wake'[t] = now + calculate_backoff(attempt[t], j)]_vars

\* the latest time.time() that the acquire() of task t has read
LastClockRead(t) ==
    IF minute_ago[t] + MINUTE * Sec >= hour_ago[t] + HOUR * Sec
    THEN minute_ago[t] + MINUTE * Sec
    ELSE hour_ago[t] + HOUR * Sec

\* C32 (as claimed): whenever acquire() goes to sleep because a window is at
\* capacity, the sleep lasts (oldest timestamp of that window + window length)
\* minus the current time, in the minute loop and in the hour loop alike (the
\* current time being the one acquire() has just read: no time passes between
\* its reading the clock and its going to sleep)
C32_SleepUntilOldestLeaves ==
    [][\A t \in Tasks :
        LastClockRead(t) = now =>
            /\ (pc[t] = "acq_min_check" /\ pc'[t] = "acq_min_sleep")
                  => wake'[t] - now = (Head(minute_window) + MINUTE * Sec) - now
            /\ (pc[t] = "acq_hour_check" /\ pc'[t] = "acq_hour_sleep")
                  => wake'[t] - now = (Head(hour_window) + HOUR * Sec) - now]_vars

\* C33 (as claimed): every attempt of _request() acquires its rate-limit slot
\* and only then obtains a token that is outside the refresh buffer at that
\* moment; so when a slot is granted to an attempt, the token of its
\* Authorization header cannot already be inside the buffer. (Stated for the
\* token read from the store, access 0, which get_valid_token() only returns
\* after finding it outside the buffer.)
C33_TokenValidWhenSlotGranted ==
    [][\A t \in Tasks :
        (/\ op[t] = "request"
         /\ pc[t] = "acq_hour_check"
         /\ pc'[t] = "http_send"
         /\ tok[t] # None
         /\ tok[t].access = 0
         /\ headers[t] = [bearer |-> 0])
        => ~needs_refresh(tok[t], now)]_vars

\* the columns that update_item_status() sets
StatusColumns == {"status", "last_error", "updated_at", "attempts"}

\* C34: update_item_status(id, status, error) changes only status, last_error,
\* updated_at and attempts (one more) of the row with that id; the row's other
\* columns, every other row, and the whole table for an unknown id stay as
\* they were. So the checksum, payload and created_at of every row are those
\* of the item as it was enqueued, through every dequeue, upload and update.
C34_UpdateTouchesOnlyStatusColumns ==
    /\ fn_in # None =>
        LET q == fn_in.table
            q2 == fn_out.table
            id == fn_in.id
        IN /\ \A i \in Ids \ {id} : q2[i] = q[i]
           /\ q[id] = None => q2 = q
           /\ q[id] # None =>
                /\ q2[id] # None
                /\ DOMAIN q2[id] = DOMAIN q[id]
                /\ q2[id].status = fn_in.status
                /\ q2[id].last_error = fn_in.error
                /\ q2[id].updated_at = fn_in.at
                /\ q2[id].attempts = q[id].attempts + 1
                /\ \A col \in DOMAIN q[id] \ StatusColumns : q2[id][col] = q[id][col]
    /\ \A i \in Rows :
        /\ enq_last[i] # None
        /\ queue[i].checksum = calculate_checksum(enq_last[i].item.data)
        /\ queue[i].data = json_dumps(enq_last[i].item.data)
        /\ queue[i].created_at = enq_last[i].item.created_at

\* a row that an upload had already marked was updated again, next to another
\* row, and some time after it was enqueued
C34_Witness ==
    /\ fn_in # None
    /\ fn_in.table[fn_in.id] # None
    /\ fn_in.table[fn_in.id].attempts >= 1
    /\ fn_in.status = "failed"
    /\ fn_in.at > fn_in.table[fn_in.id].created_at
    /\ \E i \in Rows : i # fn_in.id

\* an update for an id that is not in the table
C34_WitnessUnknownId ==
    /\ fn_in # None
    /\ fn_in.table[fn_in.id] = None
    /\ Rows # {}

\* C35: a _handle_file_change() reads the file at most 3 times; when every
\* read fails with a PermissionError or IOError it makes exactly 3 reads,
\* calls none of the callbacks, on_error included, and leaves the last-seen
\* hash, the seen-id set and the last build hash as they were
C35_UnreadableFileLeavesNoTrace ==
    /\ [](handled # None => handled.reads <= 3)
    /\ [][\A th \in WatchThreads :
            (/\ w_pc[th] = "wait_lock"
             /\ w_pc'[th] = "idle"
             /\ handled'.kind = "unreadable") =>
                /\ handled'.reads = 3
                /\ UNCHANGED <<last_file_hash, last_combat_runs, last_build_hash,
                               run_reports, build_event_hash>>
                /\ ~handled'.parsed
                /\ ~handled'.file_change
                /\ handled'.runs = <<>>
                /\ ~handled'.build_event
                /\ ~handled'.on_error]_vars

\* the observer gave up reading a file whose content is new, after an earlier
\* content was processed, and a further notification is waiting
C35_Witness ==
    /\ handled # None
    /\ handled.kind = "unreadable"
    /\ handled.thread = "observer"
    /\ handled.reads = 3
    /\ file # None
    /\ last_file_hash # None
    /\ sha256(file) # last_file_hash
    /\ last_combat_runs # {}
    /\ pending >= 1

\* C39 (as claimed): sync_all() advances the last_recommendation_sync
\* watermark only when the recommendations download of the cycle succeeded;
\* when the request of the cycle fails the watermark keeps its value
C39_WatermarkOnlyOnSuccess ==
    [][(/\ loop_pc = "full_recommendations_wait"
        /\ loop_pc' = "full_features"
        /\ result[SyncTask].kind = "raised")
       => metadata' = metadata]_vars

\* C36 (as claimed): when its request fails with a SyncError,
\* download_recommendations() returns the data last stored under the cache
\* key, expired or not, and an empty list only when nothing was stored
C36_StaleCacheOnFailure ==
    (/\ fn_out # None
     /\ fn_in.request # None
     /\ fn_in.request.kind = "raised"
     /\ fn_in.request.exc \in SyncErrors) =>
        fn_out = Ok(IF fn_in.stored # None THEN fn_in.stored.data ELSE PyList(<<>>))

\* the items of the batch request that task t has in flight
InFlightItems(t) ==
    IF op[t] = "upload" /\ pc[t] = "http_wait"
    THEN LET type_items == TypeItems(up_items[t], Head(up_groups[t]))
         IN {type_items[x] : x \in 1..Len(type_items)}
    ELSE {}

\* C38 (as claimed): no item is in two batch requests that are in flight at
\* the same time, and no item is sent in a batch request once a response has
\* reported it uploaded, also when two tasks flush the upload queue
C38_NoItemSentTwice ==
    /\ [](\A t1, t2 \in Tasks :
            t1 # t2 => InFlightItems(t1) \cap InFlightItems(t2) = {})
    /\ [][\A t \in Tasks :
            (op[t] = "upload" /\ pc[t] = "http_send" /\ pc'[t] = "http_wait") =>
               \A i \in InFlightItems(t)' : queue[i].status # "uploaded"]_vars

\* a step of task t in which its stop_background_sync() returns
StopReturns(t) ==
    \/ /\ op[t] = "stop_background_sync"
       /\ pc[t] = "await_task"
       /\ pc'[t] = "idle"
    \/ /\ stop_background_sync_call(t)
       /\ pc'[t] = "idle"

\* C40: whatever the order and interleaving of start_background_sync(),
\* stop_background_sync() and close(), at most one loop task is alive; a
\* start_background_sync() while _running creates no task; and when
\* stop_background_sync() returns no loop task is alive.
C40_AtMostOneLoopTask ==
    /\ [](Cardinality(AliveLoops) <= 1)
    /\ [][(StartCall /\ running) => UNCHANGED <<sync_task, loop_tasks>>]_vars
    /\ [][\A t \in Tasks : StopReturns(t) => AliveLoops' = {}]_vars

\* an item enqueued as a pending upload
PendingUpload(i) ==
    /\ queue[i] # None
    /\ queue[i].direction = "upload"
    /\ queue[i].status = "pending"

\* the item has become uploaded or failed
ResolvedUpload(i) ==
    /\ queue[i] # None
    /\ queue[i].status \in {"uploaded", "failed"}

====
